---- MODULE Spec2Model ----
(***************************************************************************)
(* Notification scheduling and reminder lifecycle of the wellness bot:     *)
(* scheduler.py (job table, recurring and one-shot jobs, janitor), the     *)
(* remind-later handler of handlers/notification.py with the entry rows    *)
(* of database/daily_entries_db.py, and the profile edit handlers of       *)
(* handlers/edit_profile.py with utils/validators.py.                      *)
(*                                                                         *)
(* Strings that the code parses or formats (clock times) are sequences of  *)
(* one-character strings, so that split, int() and strftime are computed.  *)
(* Instants are seconds; a datetime is an integer number of seconds.       *)
(***************************************************************************)
EXTENDS Integers, Sequences, FiniteSets, TLC

VARIABLES
    running,    \* scheduler.running
    jobs,       \* the scheduler's job table: a set of job records
    stats,      \* _scheduler_stats
    now,        \* the wall clock, in seconds
    profiles,   \* table "profiles": user id -> row or NoProfile
    entries,    \* table "entries": (user, date, type) -> row or NoEntry
    last,       \* the last operation that completed, its arguments and result
    ghost,      \* history: keyboards delivered and remind-later requests accepted;
                \* the send_reminder coroutines suspended at their await
    dialogue    \* the registration dialogue of each user: the FSM state and its
                \* data, kept in memory by the dispatcher

vars == <<running, jobs, stats, now, profiles, entries, last, ghost, dialogue>>

(***************************************************************************)
(* Program constants                                                       *)
(***************************************************************************)
PERIODS == <<"morning", "day", "evening">>

REMIND_LATER_INTERVAL == 15

REMIND_LATER_MAX_COUNT == 2

\* timedelta(hours=24) of the janitor
CLEANUP_AGE_HOURS == 24

NOTIFICATION_MORNING_OFFSET_HOURS == 1

NOTIFICATION_DAY_OFFSET_HOURS == 7

NOTIFICATION_EVENING_OFFSET_HOURS == -2

SecondsPerMinute == 60

SecondsPerHour == 3600

SecondsPerDay == 86400

MinutesPerDay == 1440

None == -1

(***************************************************************************)
(* Bounds of the model                                                     *)
(***************************************************************************)
\* cap on stats.jobs_created
MaxJobsCreated == 6

\* cap on stats.reminders_sent + stats.reminders_failed
MaxReminders == 2

\* cap on the one-shot jobs held by the job table
MaxOnetime == 1

Users == {1, 2}

PeriodSet == {PERIODS[i] : i \in 1..Len(PERIODS)}

\* the instants at which the model samples the clock besides the fire times
\* of the one-shot jobs: the start, half an hour later, the same a day later
Instants == {0, 2 * REMIND_LATER_INTERVAL * SecondsPerMinute,
             SecondsPerDay + 2 * REMIND_LATER_INTERVAL * SecondsPerMinute}

(***************************************************************************)
(* Character strings                                                       *)
(***************************************************************************)
DigitChars == <<"0", "1", "2", "3", "4", "5", "6", "7", "8", "9">>

IsDigit(c) == \E i \in 1..10 : DigitChars[i] = c

DigitVal(c) == (CHOOSE i \in 1..10 : DigitChars[i] = c) - 1

\* str.isspace() on the characters the model uses
IsSpace(c) == c = " "

RECURSIVE LStrip(_)
LStrip(s) == IF s # <<>> /\ IsSpace(Head(s)) THEN LStrip(Tail(s)) ELSE s

RECURSIVE RStrip(_)
RStrip(s) ==
    IF s # <<>> /\ IsSpace(s[Len(s)]) THEN RStrip(SubSeq(s, 1, Len(s) - 1)) ELSE s

\* str.strip()
Strip(s) == LStrip(RStrip(s))

\* str.split(sep): the fields between the occurrences of sep
RECURSIVE SplitFrom(_, _, _)
SplitFrom(s, sep, cur) ==
    IF s = <<>> THEN <<cur>>
    ELSE IF Head(s) = sep THEN <<cur>> \o SplitFrom(Tail(s), sep, <<>>)
    ELSE SplitFrom(Tail(s), sep, Append(cur, Head(s)))

Split(s, sep) == SplitFrom(s, sep, <<>>)

RECURSIVE DigitsValue(_, _)
DigitsValue(s, acc) ==
    IF s = <<>> THEN acc ELSE DigitsValue(Tail(s), 10 * acc + DigitVal(Head(s)))

AllDigits(s) == s # <<>> /\ \A i \in 1..Len(s) : IsDigit(s[i])

\* int(text): surrounding whitespace, an optional sign, then digits;
\* anything else raises ValueError (ok = FALSE)
ParseInt(text) ==
    LET t == Strip(text)
        signed == t # <<>> /\ Head(t) \in {"+", "-"}
        body == IF signed THEN Tail(t) ELSE t
    IN  IF AllDigits(body)
        THEN [ok |-> TRUE,
              val |-> IF signed /\ Head(t) = "-" THEN 0 - DigitsValue(body, 0)
                      ELSE DigitsValue(body, 0)]
        ELSE [ok |-> FALSE, val |-> 0]

\* f"{n:02d}" for 0 <= n <= 99
TwoDigits(n) == <<DigitChars[(n \div 10) + 1], DigitChars[(n % 10) + 1]>>

\* f"{h:02d}:{m:02d}" and strftime("%H:%M")
FormatHHMM(h, m) == TwoDigits(h) \o <<":">> \o TwoDigits(m)

(***************************************************************************)
(* Timezones: the names the timezone database knows, as far as the model   *)
(* uses them; any other name makes CronTrigger raise.                      *)
(***************************************************************************)
TzDatabase == {"Europe/Kyiv", "UTC"}

IsKnownTimezone(tz) == tz \in TzDatabase

(***************************************************************************)
(* The job table (scheduler.py, APScheduler's AsyncIOScheduler)            *)
(*                                                                         *)
(* A job is a record: id, trigger ("cron", "date", "interval"), the cron   *)
(* fields hour, minute and tz, the arguments user, period and remind_count *)
(* bound to send_reminder, and next_run_time. A job id is the tuple of the *)
(* fields that the code joins with "_". The wall-clock matching of cron    *)
(* and interval triggers is not modelled: such a job may fire at any time  *)
(* while it is registered, and its next_run_time is kept as 0 (not None).  *)
(***************************************************************************)
\* a faulty variant of _generate_job_id: the timestamp suffix is added to every id
generate_job_id_stamped(user_id, period, is_onetime, t) ==
    IF is_onetime THEN <<"onetime", user_id, period, t>>
    ELSE <<"notif", user_id, period, t>>

\* t is datetime.now() as read by the call
_generate_job_id(user_id, period, is_onetime, t) ==
    IF is_onetime THEN <<"onetime", user_id, period, t>>
    ELSE <<"notif", user_id, period>>

\* job.id.startswith('onetime_')
IsOnetimeId(id) == id[1] = "onetime"

\* misfire_grace_time=300 of the add_job call of schedule_reminder, in seconds
CronMisfireGrace == 300

\* the misfire_grace_time of a job added without one: the default of a
\* scheduler built without job_defaults, AsyncIOScheduler(), in seconds
SchedulerMisfireGrace == 1

CronJob(id, hour, minute, tz, user_id, period) ==
    [id |-> id, trigger |-> "cron", hour |-> hour, minute |-> minute, tz |-> tz,
     user |-> user_id, period |-> period, remind_count |-> 0, next_run_time |-> 0,
     misfire_grace_time |-> CronMisfireGrace]

DateJob(id, run_time, user_id, period, remind_count) ==
    [id |-> id, trigger |-> "date", hour |-> 0, minute |-> 0, tz |-> "",
     user |-> user_id, period |-> period, remind_count |-> remind_count,
     next_run_time |-> run_time, misfire_grace_time |-> SchedulerMisfireGrace]

JanitorJob ==
    [id |-> <<"cleanup_old_jobs">>, trigger |-> "interval", hour |-> 6, minute |-> 0,
     tz |-> "", user |-> 0, period |-> "", remind_count |-> 0, next_run_time |-> 0,
     misfire_grace_time |-> SchedulerMisfireGrace]

\* scheduler.get_job(id): the set of jobs under that id (empty: None)
get_job(J, id) == {j \in J : j.id = id}

\* scheduler.remove_job(id)
remove_job(J, id) == {j \in J : j.id # id}

\* a faulty variant of add_job: the job is added whatever the table holds
add_job_append(J, job, replace_existing) == [jobs |-> J \cup {job}, ok |-> TRUE]

\* scheduler.add_job(..., id=id, replace_existing=replace): an id already in
\* the table is replaced, or ConflictingIdError is raised (ok = FALSE)
add_job(J, job, replace_existing) ==
    IF get_job(J, job.id) = {} THEN [jobs |-> J \cup {job}, ok |-> TRUE]
    ELSE IF replace_existing THEN [jobs |-> remove_job(J, job.id) \cup {job}, ok |-> TRUE]
    ELSE [jobs |-> J, ok |-> FALSE]

\* a faulty variant of retire_after_run: a job is dropped after any run
retire_after_run_always(J, j) == J \ {j}

\* a faulty variant of retire_after_run: no job is dropped after its run
retire_after_run_never(J, j) == J

\* the scheduler after it submitted job j: a job whose trigger has no further
\* fire time (date) is removed, a cron job stays with its trigger unchanged
retire_after_run(J, j) == IF j.trigger = "date" THEN J \ {j} ELSE J

Bump(st, field, n) == [st EXCEPT ![field] = @ + n]

\* a faulty variant of schedule_reminder: the range check on the minute is missing
schedule_reminder_norange(J, st, user_id, time_str, period, timezone, t) ==
    LET parts == Split(Strip(time_str), ":")
        hour == ParseInt(parts[1])
        minute == ParseInt(parts[2])
        failed == [jobs |-> J, stats |-> st, ret |-> FALSE]
    IN  IF Len(parts) < 2 THEN failed
        ELSE IF ~hour.ok \/ ~minute.ok THEN failed
        ELSE IF ~(0 <= hour.val /\ hour.val <= 23) THEN failed
        ELSE IF ~IsKnownTimezone(timezone) THEN failed
        ELSE [jobs |-> add_job(J, CronJob(_generate_job_id(user_id, period, FALSE, t),
                                          hour.val, minute.val, timezone, user_id, period),
                               TRUE).jobs,
              stats |-> Bump(st, "jobs_created", 1),
              ret |-> TRUE]

\* schedule_reminder: [jobs, stats, ret]
schedule_reminder(J, st, user_id, time_str, period, timezone, t) ==
    LET parts == Split(Strip(time_str), ":")
        hour == ParseInt(parts[1])
        minute == ParseInt(parts[2])
        failed == [jobs |-> J, stats |-> st, ret |-> FALSE]
    IN  IF Len(parts) < 2 THEN failed
        \* int() raises ValueError
        ELSE IF ~hour.ok \/ ~minute.ok THEN failed
        ELSE IF ~(0 <= hour.val /\ hour.val <= 23 /\ 0 <= minute.val /\ minute.val <= 59)
        THEN failed
        \* CronTrigger(..., timezone=timezone) raises for an unknown zone
        ELSE IF ~IsKnownTimezone(timezone) THEN failed
        ELSE [jobs |-> add_job(J, CronJob(_generate_job_id(user_id, period, FALSE, t),
                                          hour.val, minute.val, timezone, user_id, period),
                               TRUE).jobs,
              stats |-> Bump(st, "jobs_created", 1),
              ret |-> TRUE]

\* the loop of schedule_user_notifications from index i on
RECURSIVE schedule_loop(_, _, _, _, _, _, _, _)
schedule_loop(J, st, user_id, times, timezone, t, i, scheduled_count) ==
    IF i > Len(times) \/ i > Len(PERIODS)
    THEN [jobs |-> J, stats |-> st, ret |-> scheduled_count]
    ELSE LET r == schedule_reminder(J, st, user_id, times[i], PERIODS[i], timezone, t)
         IN  schedule_loop(r.jobs, r.stats, user_id, times, timezone, t, i + 1,
                           IF r.ret THEN scheduled_count + 1 ELSE scheduled_count)

\* a faulty variant of schedule_user_notifications: the last time of the list
\* is left out
schedule_user_notifications_short(J, st, user_id, times, timezone, t) ==
    schedule_loop(J, st, user_id, SubSeq(times, 1, Len(times) - 1), timezone, t, 1, 0)

\* schedule_user_notifications: [jobs, stats, ret]
schedule_user_notifications(J, st, user_id, times, timezone, t) ==
    schedule_loop(J, st, user_id, times, timezone, t, 1, 0)

\* the loop of remove_user_schedule from period i on
RECURSIVE remove_loop(_, _, _, _, _)
remove_loop(J, st, user_id, i, removed_count) ==
    IF i > Len(PERIODS) THEN [jobs |-> J, stats |-> st, ret |-> removed_count]
    ELSE LET job_id == _generate_job_id(user_id, PERIODS[i], FALSE, 0)
         IN  IF get_job(J, job_id) # {}
             THEN remove_loop(remove_job(J, job_id), Bump(st, "jobs_removed", 1),
                              user_id, i + 1, removed_count + 1)
             ELSE remove_loop(J, st, user_id, i + 1, removed_count)

\* a faulty variant of remove_user_schedule: the loop stops after the first removal
remove_user_schedule_first(J, st, user_id) ==
    LET present == {i \in 1..Len(PERIODS) :
                        get_job(J, _generate_job_id(user_id, PERIODS[i], FALSE, 0)) # {}}
    IN  IF present = {} THEN [jobs |-> J, stats |-> st, ret |-> 0]
        ELSE LET i == CHOOSE k \in present : \A m \in present : k <= m
             IN  [jobs |-> remove_job(J, _generate_job_id(user_id, PERIODS[i], FALSE, 0)),
                  stats |-> Bump(st, "jobs_removed", 1), ret |-> 1]

\* a faulty variant of remove_user_schedule: every job bound to the user is removed
remove_user_schedule_all(J, st, user_id) ==
    LET mine == {j \in J : j.user = user_id}
    IN  [jobs |-> J \ mine, stats |-> Bump(st, "jobs_removed", Cardinality(mine)),
         ret |-> Cardinality(mine)]

\* remove_user_schedule: [jobs, stats, ret]
remove_user_schedule(J, st, user_id) == remove_loop(J, st, user_id, 1, 0)

\* reschedule_user_notifications: [jobs, stats, ret]
reschedule_user_notifications(J, st, user_id, times, timezone, t) ==
    LET rm == remove_user_schedule(J, st, user_id)
        sc == schedule_user_notifications(rm.jobs, rm.stats, user_id, times, timezone, t)
    IN  [jobs |-> sc.jobs, stats |-> sc.stats, ret |-> (sc.ret = Len(times))]

\* The id result of schedule_onetime_reminder when it returns None
NoJobId == <<>>

\* a faulty variant of schedule_onetime_reminder: the delay is not added to the
\* run time
schedule_onetime_reminder_nodelay(J, st, user_id, period, remind_count, delay_minutes, t) ==
    LET job_id == _generate_job_id(user_id, period, TRUE, t)
        r == add_job(J, DateJob(job_id, t, user_id, period, remind_count), FALSE)
    IN  IF r.ok
        THEN [jobs |-> r.jobs, stats |-> Bump(st, "jobs_created", 1), ret |-> job_id]
        ELSE [jobs |-> J, stats |-> st, ret |-> NoJobId]

\* schedule_onetime_reminder: [jobs, stats, ret], ret the job id or NoJobId
schedule_onetime_reminder(J, st, user_id, period, remind_count, delay_minutes, t) ==
    LET run_time == t + delay_minutes * SecondsPerMinute
        job_id == _generate_job_id(user_id, period, TRUE, t)
        r == add_job(J, DateJob(job_id, run_time, user_id, period, remind_count), FALSE)
    IN  IF r.ok
        THEN [jobs |-> r.jobs, stats |-> Bump(st, "jobs_created", 1), ret |-> job_id]
        \* ConflictingIdError, caught by the except clause
        ELSE [jobs |-> J, stats |-> st, ret |-> NoJobId]

\* a faulty variant of create_checkin_keyboard: remind-later is still offered
\* at the count 2
create_checkin_keyboard_upto(period, remind_count) ==
    (IF period = "morning" THEN {"start_morning"}
     ELSE IF period \in {"afternoon", "day"} THEN {"start_day"}
     ELSE IF period = "evening" THEN {"start_evening"}
     ELSE {})
    \cup (IF remind_count <= 2 THEN {"remind_later"} ELSE {})
    \cup {"skip_checkin"}

\* create_checkin_keyboard(period, remind_count): the callback data offered
create_checkin_keyboard(period, remind_count) ==
    (IF period = "morning" THEN {"start_morning"}
     ELSE IF period \in {"afternoon", "day"} THEN {"start_day"}
     ELSE IF period = "evening" THEN {"start_evening"}
     ELSE {})
    \cup (IF remind_count < 2 THEN {"remind_later"} ELSE {})
    \cup {"skip_checkin"}

\* the urgency suffix send_reminder appends to the message text
UrgencySuffix(remind_count) ==
    IF remind_count = 1 THEN "friendly"
    ELSE IF remind_count >= 2 THEN "last_chance"
    ELSE "none"

\* the message send_reminder hands to bot.send_message: the urgency suffix
\* appended to the period's text and the callback data of the keyboard
reminder_message(period, remind_count) ==
    [suffix |-> UrgencySuffix(remind_count),
     keyboard |-> create_checkin_keyboard(period, remind_count)]

\* the message of an operation that sends none
NoMessage == [suffix |-> "none", keyboard |-> {}]

\* a faulty variant of send_reminder: a rejected send is counted as sent too
send_reminder_countsboth(st, user_id, period, remind_count, delivered) ==
    IF delivered THEN Bump(st, "reminders_sent", 1)
    ELSE Bump(Bump(st, "reminders_failed", 1), "reminders_sent", 1)

\* send_reminder: the statistics after the send; delivered is the channel's
\* answer (FALSE: bot.send_message raised)
send_reminder(st, user_id, period, remind_count, delivered) ==
    IF delivered THEN Bump(st, "reminders_sent", 1)
    ELSE Bump(st, "reminders_failed", 1)

(***************************************************************************)
(* The janitor. job.next_run_time is a timezone-aware datetime (APScheduler*)
(* localises every run time to the scheduler's zone), current_time is the  *)
(* naive datetime.now(): the comparison on line 386 raises TypeError, which*)
(* the except clause of line 396 catches, ending the sweep.                *)
(***************************************************************************)
\* aware < naive: Python raises TypeError for every pair of operands
AwareLessThanNaive(aware, naive) == [raised |-> TRUE, val |-> FALSE]

\* scheduler.get_jobs() order: by next_run_time, jobs without one last
FirstJob(S) ==
    CHOOSE j \in S : \A k \in S :
        IF j.next_run_time = None THEN k.next_run_time = None
        ELSE k.next_run_time = None \/ j.next_run_time <= k.next_run_time

\* the loop of cleanup_old_jobs over the jobs of the snapshot not yet seen
RECURSIVE cleanup_loop(_, _, _, _)
cleanup_loop(J, todo, removed, current_time) ==
    IF todo = {} THEN [jobs |-> J, removed |-> removed, raised |-> FALSE]
    ELSE LET job == FirstJob(todo)
             rest == todo \ {job}
             cmp == AwareLessThanNaive(job.next_run_time,
                                       current_time - CLEANUP_AGE_HOURS * SecondsPerHour)
         IN  IF ~IsOnetimeId(job.id) THEN cleanup_loop(J, rest, removed, current_time)
             ELSE IF job.next_run_time = None
             THEN cleanup_loop(remove_job(J, job.id), rest, removed + 1, current_time)
             ELSE IF cmp.raised THEN [jobs |-> J, removed |-> removed, raised |-> TRUE]
             ELSE IF cmp.val
             THEN cleanup_loop(remove_job(J, job.id), rest, removed + 1, current_time)
             ELSE cleanup_loop(J, rest, removed, current_time)

\* a faulty variant of cleanup_old_jobs: the prefix test guards the skip, not the
\* removal, so every job that is not one-shot is removed
cleanup_old_jobs_noprefix(J, st, current_time) ==
    [jobs |-> {j \in J : IsOnetimeId(j.id)},
     stats |-> [Bump(st, "jobs_removed", Cardinality({j \in J : ~IsOnetimeId(j.id)}))
                    EXCEPT !.last_cleanup = current_time],
     raised |-> FALSE]

\* a faulty variant of cleanup_old_jobs: a sweep that ends by an exception
\* has removed the one-shot jobs it had not examined
cleanup_old_jobs_droprest(J, st, current_time) ==
    LET r == cleanup_loop(J, J, 0, current_time)
    IN  IF r.raised
        THEN [jobs |-> {j \in r.jobs : ~IsOnetimeId(j.id)}, stats |-> st, raised |-> TRUE]
        ELSE [jobs |-> r.jobs,
              stats |-> [Bump(st, "jobs_removed", r.removed)
                            EXCEPT !.last_cleanup = current_time],
              raised |-> FALSE]

\* cleanup_old_jobs: [jobs, stats, raised]
cleanup_old_jobs(J, st, current_time) ==
    LET r == cleanup_loop(J, J, 0, current_time)
    IN  IF r.raised THEN [jobs |-> r.jobs, stats |-> st, raised |-> TRUE]
        ELSE [jobs |-> r.jobs,
              stats |-> [Bump(st, "jobs_removed", r.removed)
                            EXCEPT !.last_cleanup = current_time],
              raised |-> FALSE]

(***************************************************************************)
(* State and history                                                       *)
(***************************************************************************)
\* date.today() at the instant t, as a day number
today(t) == t \div SecondsPerDay

NoProfile == [present |-> FALSE]

NoEntry == [present |-> FALSE]

\* the days the clock can reach: a fire time lies REMIND_LATER_INTERVAL after
\* an instant the clock had
Days == {today(t + n * REMIND_LATER_INTERVAL * SecondsPerMinute) :
             t \in Instants, n \in 0..MaxJobsCreated}

EntryKeys == Users \X Days \X PeriodSet

\* CronTrigger(hour, minute, timezone): the instant of the job's fire time on
\* a day, for a zone without offset to the clock ("UTC")
cron_occurrence(j, day) ==
    day * SecondsPerDay + j.hour * SecondsPerHour + j.minute * SecondsPerMinute

\* the fire times of the recurring jobs of the table on the days of the clock
CronDueTimes(J) ==
    {cron_occurrence(j, day) : j \in {k \in J : k.trigger = "cron"}, day \in Days}

InitStats ==
    [reminders_sent |-> 0, reminders_failed |-> 0, jobs_created |-> 0,
     jobs_removed |-> 0, last_cleanup |-> None]

\* the FSM context of a user outside the registration: no state, no data
\* (a key that is absent reads as the empty value); review: a profile review
\* message with its buttons on is in the chat
NoDialogue ==
    [state |-> "none", bedtime_usual |-> <<>>, wakeuptime_usual |-> <<>>,
     detected_timezone |-> "", timezone |-> "", notification_times |-> <<>>,
     use_default_notifications |-> FALSE, review |-> FALSE]

NoLast ==
    [op |-> "none", user |-> 0, period |-> "", times |-> <<>>, tz |-> "", count |-> 0,
     ret |-> 0, ok |-> FALSE, id |-> NoJobId, pre |-> {}, repeat |-> FALSE,
     chained |-> FALSE, msg |-> NoMessage, out |-> <<>>]

\* The record of a completed operation; repeat: the operation before it was
\* the same operation with the same user, times and timezone; chained: it is
\* a remove_user_schedule that follows a reschedule of the same user; msg: the
\* message a send_reminder handed to the channel; out: the value a validator
\* returned
Done(op, user_id, period, times, tz, count, ret, ok, id, pre) ==
    [op |-> op, user |-> user_id, period |-> period, times |-> times, tz |-> tz,
     count |-> count, ret |-> ret, ok |-> ok, id |-> id, pre |-> pre,
     repeat |-> (last.op = op /\ last.user = user_id /\ last.times = times
                 /\ last.tz = tz),
     chained |-> (op = "remove" /\ last.op = "reschedule" /\ last.user = user_id),
     msg |-> IF op = "send" THEN reminder_message(period, count) ELSE NoMessage,
     out |-> <<>>]

Init ==
    /\ running = FALSE
    /\ jobs = {}
    /\ stats = InitStats
    /\ now = 0
    /\ profiles = [u \in Users |-> NoProfile]
    /\ entries = [k \in EntryKeys |-> NoEntry]
    /\ last = NoLast
    /\ ghost = [offered |-> {}, accepted |-> [k \in EntryKeys |-> 0], fired |-> {},
                inflight |-> {}, started |-> 0, finished |-> 0,
                handlers |-> {}, increments |-> [k \in EntryKeys |-> 0]]
    /\ dialogue = [u \in Users |-> NoDialogue]

(***************************************************************************)
(* Inputs of the scheduler operations                                      *)
(***************************************************************************)
T0800 == <<"0", "8", ":", "0", "0">>

T1430 == <<"1", "4", ":", "3", "0">>

T2100 == <<"2", "1", ":", "0", "0">>

T2130 == <<"2", "1", ":", "3", "0">>

\* accepted by schedule_reminder though not of the form HH:MM
T7c5 == <<"7", ":", "5">>

T073015 == <<"0", "7", ":", "3", "0", ":", "1", "5">>

TSpaced == <<" ", "9", ":", "1", "5", " ">>

\* refused by schedule_reminder
T2500 == <<"2", "5", ":", "0", "0">>

T1260 == <<"1", "2", ":", "6", "0">>

Tabcd == <<"a", "b", ":", "c", "d">>

T0730NoColon == <<"0", "7", "3", "0">>

TNegative == <<"-", "1", ":", "3", "0">>

TimesInputs ==
    { <<T0800, T1430, T2100>>,
      <<T7c5, T073015, T2130>>,
      <<T0800, T2500, T2100>>,
      <<Tabcd, T1430, T1260>>,
      <<T0730NoColon, TNegative, TSpaced>>,
      <<>>,
      <<T0800, T1430>>,
      <<T0800, T1430, T2100, T2130>> }

TzInputs == {"Europe/Kyiv", "UTC", "Mars/Phobos"}

(***************************************************************************)
(* Scheduler operations as actions                                         *)
(***************************************************************************)
DbUnchanged == UNCHANGED <<profiles, entries, ghost, dialogue>>

\* a faulty variant of start_scheduler: the scheduler is started whether it runs
\* or not, on an empty job table
start_scheduler_anew(J, is_running) ==
    [running |-> TRUE, jobs |-> add_job({}, JanitorJob, TRUE).jobs]

\* start_scheduler: [running, jobs]; a running scheduler is left alone
start_scheduler(J, is_running) ==
    IF ~is_running
    THEN [running |-> TRUE, jobs |-> add_job(J, JanitorJob, TRUE).jobs]
    ELSE [running |-> is_running, jobs |-> J]

\* start_scheduler
StartScheduler ==
    /\ running' = start_scheduler(jobs, running).running
    /\ jobs' = start_scheduler(jobs, running).jobs
    /\ last' = Done("start_scheduler", 0, "", <<>>, "", 0, 0, ~running, NoJobId, {})
    /\ UNCHANGED <<stats, now>>
    /\ DbUnchanged

\* schedule_user_notifications(bot, u, T, tz)
ScheduleAll(u, T, tz) ==
    /\ running
    /\ stats.jobs_created + Len(PERIODS) <= MaxJobsCreated
    /\ LET r == schedule_user_notifications(jobs, stats, u, T, tz, now)
       IN  /\ jobs' = r.jobs
           /\ stats' = r.stats
           /\ last' = Done("schedule", u, "", T, tz, 0, r.ret, TRUE, NoJobId, {})
    /\ UNCHANGED <<running, now>>
    /\ DbUnchanged

\* remove_user_schedule(u)
RemoveAll(u) ==
    /\ running
    /\ LET r == remove_user_schedule(jobs, stats, u)
       IN  /\ jobs' = r.jobs
           /\ stats' = r.stats
           /\ last' = Done("remove", u, "", <<>>, "", 0, r.ret, TRUE, NoJobId,
                           IF last.op = "reschedule" /\ last.user = u
                           THEN last.pre ELSE {})
    /\ UNCHANGED <<running, now>>
    /\ DbUnchanged

\* reschedule_user_notifications(bot, u, T, tz)
Reschedule(u, T, tz) ==
    /\ running
    /\ stats.jobs_created + Len(PERIODS) <= MaxJobsCreated
    /\ LET r == reschedule_user_notifications(jobs, stats, u, T, tz, now)
       IN  /\ jobs' = r.jobs
           /\ stats' = r.stats
           /\ last' = Done("reschedule", u, "", T, tz, 0,
                           Cardinality({j \in r.jobs : j.trigger = "cron" /\ j.user = u}),
                           r.ret, NoJobId, jobs)
    /\ UNCHANGED <<running, now>>
    /\ DbUnchanged

\* schedule_onetime_reminder(bot, u, p, c) with the default delay
Snooze(u, p, c) ==
    /\ running
    /\ stats.jobs_created + 1 <= MaxJobsCreated
    /\ Cardinality({j \in jobs : j.trigger = "date"}) < MaxOnetime
    /\ LET r == schedule_onetime_reminder(jobs, stats, u, p, c, REMIND_LATER_INTERVAL, now)
       IN  /\ jobs' = r.jobs
           /\ stats' = r.stats
           /\ last' = Done("snooze", u, p, <<>>, "", c, 0, r.ret # NoJobId, r.ret, {})
    /\ UNCHANGED <<running, now>>
    /\ DbUnchanged

\* The keyboards that reached a user: a delivered reminder whose keyboard
\* holds the remind-later button lets that user send remind_later_<period>
Offer(user_id, period, remind_count, delivered) ==
    IF delivered /\ "remind_later" \in create_checkin_keyboard(period, remind_count)
    THEN [ghost EXCEPT !.offered = @ \cup {<<user_id, period>>}]
    ELSE ghost

\* A recurring job fires: send_reminder(bot, user, period, 0); the job stays
FireRecurring(j, delivered) ==
    /\ running
    /\ j \in jobs /\ j.trigger = "cron"
    /\ stats.reminders_sent + stats.reminders_failed < MaxReminders
    /\ stats' = send_reminder(stats, j.user, j.period, j.remind_count, delivered)
    /\ last' = Done("send", j.user, j.period, <<>>, "", j.remind_count, 0, delivered,
                    j.id, {})
    /\ ghost' = Offer(j.user, j.period, j.remind_count, delivered)
    /\ UNCHANGED <<running, jobs, now, profiles, entries, dialogue>>

\* the executor's test of a run submitted at the instant t for the fire time
\* run_time: a run later than the job's misfire_grace_time is missed
Misfired(j, run_time, t) == t - run_time > j.misfire_grace_time

\* A due one-shot job is processed within its grace time:
\* reminder_with_cleanup runs and the scheduler drops the job, whose date
\* trigger has no further fire time
FireOnetime(j, delivered) ==
    /\ running
    /\ j \in jobs /\ j.trigger = "date"
    /\ j.next_run_time # None /\ j.next_run_time <= now
    /\ ~Misfired(j, j.next_run_time, now)
    /\ stats.reminders_sent + stats.reminders_failed < MaxReminders
    /\ stats' = Bump(send_reminder(stats, j.user, j.period, j.remind_count, delivered),
                     "jobs_removed", 1)
    /\ jobs' = retire_after_run(jobs, j)
    /\ last' = Done("send", j.user, j.period, <<>>, "", j.remind_count, 0, delivered,
                    j.id, {})
    /\ ghost' = Offer(j.user, j.period, j.remind_count, delivered)
    /\ UNCHANGED <<running, now, profiles, entries, dialogue>>

\* A due one-shot job is processed after its grace time: the run is missed,
\* reminder_with_cleanup is not called, and the scheduler drops the job
MissOnetime(j) ==
    /\ running
    /\ j \in jobs /\ j.trigger = "date"
    /\ j.next_run_time # None /\ j.next_run_time <= now
    /\ Misfired(j, j.next_run_time, now)
    /\ jobs' = retire_after_run(jobs, j)
    /\ last' = Done("missed", j.user, j.period, <<>>, "", j.remind_count, 0, FALSE,
                    j.id, {})
    /\ UNCHANGED <<running, stats, now>>
    /\ DbUnchanged

\* The janitor's interval job fires: cleanup_old_jobs()
Cleanup ==
    /\ running
    /\ JanitorJob \in jobs
    /\ LET r == cleanup_old_jobs(jobs, stats, now)
       IN  /\ jobs' = r.jobs
           /\ stats' = r.stats
           /\ last' = Done("cleanup", 0, "", <<>>, "", 0,
                           Cardinality(jobs) - Cardinality(r.jobs), ~r.raised, NoJobId, {})
    /\ UNCHANGED <<running, now>>
    /\ DbUnchanged

\* the delays of the scheduler's wake-up past a fire time, in seconds: none,
\* the two grace times, and a second more than each
Delays ==
    {0, SchedulerMisfireGrace, SchedulerMisfireGrace + 1, CronMisfireGrace,
     CronMisfireGrace + 1}

\* Time passes, to a sampled instant or to the fire time of a job, or past
\* the fire time of a one-shot job by one of the delays
Tick(t) ==
    /\ t > now
    /\ t \in Instants \cup CronDueTimes(jobs)
             \cup {j.next_run_time + late : j \in {k \in jobs : k.trigger = "date"},
                                            late \in Delays}
    /\ now' = t
    /\ UNCHANGED <<running, jobs, stats, last>>
    /\ DbUnchanged

(***************************************************************************)
(* Spec: the schedule lifecycle. Every operation that changes the job      *)
(* table is called with inputs from small sets, at the sampled instants.   *)
(***************************************************************************)
SpecTimes == { <<T0800, T1430, T2100>>, <<T7c5, T2500, T2130>> }

SpecTz == {"Europe/Kyiv", "Mars/Phobos"}

Next ==
    \/ StartScheduler
    \/ \E u \in Users, T \in SpecTimes, tz \in SpecTz : ScheduleAll(u, T, tz)
    \/ \E u \in Users : RemoveAll(u)
    \/ \E u \in Users, T \in SpecTimes, tz \in SpecTz : Reschedule(u, T, tz)
    \/ \E u \in Users, c \in {1, REMIND_LATER_MAX_COUNT} : Snooze(u, "morning", c)
    \/ Cleanup
    \/ \E t \in {i \in Instants : today(i) = 0} : Tick(t)

Spec == Init /\ [][Next]_vars

(***************************************************************************)
(* SpecJanitor: one-shot jobs over time. The clock advances, due one-shot  *)
(* jobs are processed or left waiting, recurring jobs fire, the janitor    *)
(* sweeps. A snooze is asked for at a sampled instant.                     *)
(***************************************************************************)
NextJanitor ==
    \/ StartScheduler
    \/ ScheduleAll(1, <<T0800, T1430, T2100>>, "UTC")
    \/ \E u \in Users : now \in Instants /\ Snooze(u, "evening", 1)
    \/ \E j \in jobs, d \in BOOLEAN : FireOnetime(j, d)
    \/ \E j \in jobs : MissOnetime(j)
    \/ Cleanup
    \/ \E t \in Instants \cup {j.next_run_time : j \in jobs} : Tick(t)

SpecJanitor == Init /\ [][NextJanitor]_vars

(***************************************************************************)
(* utils/validators.py                                                     *)
(***************************************************************************)
\* the value of a Python None or empty string result
NoString == <<>>

\* the separator class [\s\.\-:] of validate_time
IsTimeSeparator(c) == IsSpace(c) \/ c \in {".", "-", ":"}

\* ([0-1]?[0-9]|2[0-4]) matched against the whole of h
MatchesHourGroup(h) ==
    \/ Len(h) = 1 /\ IsDigit(h[1])
    \/ Len(h) = 2 /\ h[1] \in {"0", "1"} /\ IsDigit(h[2])
    \/ Len(h) = 2 /\ h[1] = "2" /\ h[2] \in {"0", "1", "2", "3", "4"}

\* ([0-5][0-9]) matched against the whole of m
MatchesMinuteGroup(m) ==
    Len(m) = 2 /\ m[1] \in {"0", "1", "2", "3", "4", "5"} /\ IsDigit(m[2])

\* validate_time(text): the normalised HH:MM, or NoString for None
validate_time(text) ==
    LET t == Strip(text)
        \* the regular expression leaves one split: the minutes are the last
        \* two characters, the separator the one before them
        n == Len(t)
        matched == /\ n \in {4, 5}
                   /\ MatchesHourGroup(SubSeq(t, 1, n - 3))
                   /\ IsTimeSeparator(t[n - 2])
                   /\ MatchesMinuteGroup(SubSeq(t, n - 1, n))
        hours0 == DigitsValue(SubSeq(t, 1, n - 3), 0)
        minutes == DigitsValue(SubSeq(t, n - 1, n), 0)
        hours == IF hours0 = 24 /\ minutes = 0 THEN 0 ELSE hours0
    IN  IF ~matched THEN NoString
        ELSE IF hours > 23 \/ minutes > 59 THEN NoString
        ELSE FormatHHMM(hours, minutes)

\* datetime.strptime(text, "%H:%M"): minutes since midnight of 1900-01-01,
\* or ValueError (ok = FALSE); %H and %M take one or two digits
strptime_HM(text) ==
    LET parts == Split(text, ":")
        okShape == /\ Len(parts) = 2
                   /\ AllDigits(parts[1]) /\ Len(parts[1]) <= 2
                   /\ AllDigits(parts[2]) /\ Len(parts[2]) <= 2
        h == DigitsValue(parts[1], 0)
        m == DigitsValue(parts[2], 0)
    IN  IF okShape /\ h <= 23 /\ m <= 59
        THEN [ok |-> TRUE, val |-> h * 60 + m]
        ELSE [ok |-> FALSE, val |-> 0]

\* datetime.strftime("%H:%M") of a datetime given in minutes since
\* midnight of 1900-01-01 (negative: the day before)
strftime_HM(minutes) ==
    LET clock == minutes % MinutesPerDay
    IN  FormatHHMM(clock \div 60, clock % 60)

MIN_SLEEP_HOURS == 4

MAX_SLEEP_HOURS == 12

\* a faulty variant of calculate_sleep_duration: equal clock times are the
\* same instant
calculate_sleep_duration_sameday(bedtime_str, wakeup_str) ==
    LET bedtime == strptime_HM(bedtime_str)
        wakeup0 == strptime_HM(wakeup_str)
        wakeup == IF wakeup0.val < bedtime.val THEN wakeup0.val + MinutesPerDay
                  ELSE wakeup0.val
    IN  IF ~bedtime.ok \/ ~wakeup0.ok THEN [ok |-> FALSE, minutes |-> 0]
        ELSE [ok |-> TRUE, minutes |-> wakeup - bedtime.val]

\* calculate_sleep_duration(bedtime_str, wakeup_str): [ok, minutes]; the
\* float returned is minutes / 60, ok = FALSE when strptime raises ValueError
calculate_sleep_duration(bedtime_str, wakeup_str) ==
    LET bedtime == strptime_HM(bedtime_str)
        wakeup0 == strptime_HM(wakeup_str)
        wakeup == IF wakeup0.val <= bedtime.val THEN wakeup0.val + MinutesPerDay
                  ELSE wakeup0.val
    IN  IF ~bedtime.ok \/ ~wakeup0.ok THEN [ok |-> FALSE, minutes |-> 0]
        ELSE [ok |-> TRUE, minutes |-> wakeup - bedtime.val]

\* a faulty variant of validate_sleep_schedule: the bounds themselves are
\* refused
validate_sleep_schedule_open(bedtime, wakeuptime) ==
    LET duration == calculate_sleep_duration(bedtime, wakeuptime)
    IN  IF ~duration.ok THEN <<FALSE, "invalid format">>
        ELSE IF duration.minutes <= MIN_SLEEP_HOURS * 60 THEN <<FALSE, "too short">>
        ELSE IF duration.minutes >= MAX_SLEEP_HOURS * 60 THEN <<FALSE, "too long">>
        ELSE <<TRUE, "none">>

\* validate_sleep_schedule(bedtime, wakeuptime): (is_valid, error_message),
\* the message given by its kind; duration < 4 is minutes < 4 * 60, the
\* division by 3600 being exact at the bounds and monotone
validate_sleep_schedule(bedtime, wakeuptime) ==
    LET duration == calculate_sleep_duration(bedtime, wakeuptime)
    IN  IF ~duration.ok THEN <<FALSE, "invalid format">>
        ELSE IF duration.minutes < MIN_SLEEP_HOURS * 60 THEN <<FALSE, "too short">>
        ELSE IF duration.minutes > MAX_SLEEP_HOURS * 60 THEN <<FALSE, "too long">>
        ELSE <<TRUE, "none">>

\* a faulty variant of calculate_notification_defaults: the evening time is
\* formatted with the hour of the offset datetime counted from the first day
calculate_notification_defaults_noadjust(wakeup_str, bedtime_str) ==
    LET wakeup == strptime_HM(wakeup_str)
        bedtime == strptime_HM(bedtime_str)
        morning_time == wakeup.val + NOTIFICATION_MORNING_OFFSET_HOURS * 60
        day_time == wakeup.val + NOTIFICATION_DAY_OFFSET_HOURS * 60
        evening0 == bedtime.val + NOTIFICATION_EVENING_OFFSET_HOURS * 60
        evening_time == IF evening0 < 0 THEN 0 ELSE evening0
    IN  IF ~wakeup.ok \/ ~bedtime.ok THEN [ok |-> FALSE, times |-> <<>>]
        ELSE [ok |-> TRUE,
              times |-> <<strftime_HM(morning_time), strftime_HM(day_time),
                          strftime_HM(evening_time)>>]

\* calculate_notification_defaults(wakeup_str, bedtime_str): [ok, times];
\* ok = FALSE when strptime raises ValueError
calculate_notification_defaults(wakeup_str, bedtime_str) ==
    LET wakeup == strptime_HM(wakeup_str)
        bedtime == strptime_HM(bedtime_str)
        morning_time == wakeup.val + NOTIFICATION_MORNING_OFFSET_HOURS * 60
        day_time == wakeup.val + NOTIFICATION_DAY_OFFSET_HOURS * 60
        evening0 == bedtime.val + NOTIFICATION_EVENING_OFFSET_HOURS * 60
        evening_time == IF evening0 < wakeup.val THEN evening0 + MinutesPerDay
                        ELSE evening0
    IN  IF ~wakeup.ok \/ ~bedtime.ok THEN [ok |-> FALSE, times |-> <<>>]
        ELSE [ok |-> TRUE,
              times |-> <<strftime_HM(morning_time), strftime_HM(day_time),
                          strftime_HM(evening_time)>>]

(***************************************************************************)
(* The persisted rows: database/supabase_db.py, database/daily_entries_db.py*)
(***************************************************************************)
ProfileRow(bedtime, wakeup, tz, times, use_default) ==
    [present |-> TRUE, bedtime_usual |-> bedtime, wakeuptime_usual |-> wakeup,
     timezone |-> tz, notification_times |-> times,
     use_default_notifications |-> use_default]

\* a row of the entries table: the columns the handlers of the reminders
\* write (skipped_at, completed_at: None until written)
EntryRow(count) ==
    [present |-> TRUE, remind_later_count |-> count, skipped |-> FALSE,
     skipped_at |-> None, completed_at |-> None]

\* upsert_entry(user, day, period, {}) after get_entry_by_date_type found
\* nothing: the new row takes the column default 0
get_or_create_entry(E, k) ==
    IF E[k].present THEN E ELSE [E EXCEPT ![k] = EntryRow(0)]

\* increment_remind_later_count(entry id): [entries, ret]; db_ok = FALSE: the
\* request to the database raised, which the function turns into False
increment_remind_later_count(E, k, db_ok) ==
    IF db_ok /\ E[k].present
    THEN [entries |-> [E EXCEPT ![k].remind_later_count = @ + 1], ret |-> TRUE]
    ELSE [entries |-> E, ret |-> FALSE]

\* update_user_profile(u, {notification_times: times}): [profiles, ret];
\* ret = FALSE stands for the None that handle_db_errors returns
update_notification_times(P, u, times, db_ok) ==
    IF ~db_ok THEN [profiles |-> P, ret |-> FALSE]
    ELSE IF P[u].present
    THEN [profiles |-> [P EXCEPT ![u].notification_times = times], ret |-> TRUE]
    ELSE [profiles |-> P, ret |-> TRUE]

\* delete_user_profile(u): the entries go first, then the profile row;
\* ret = bool(response.data), False when there was no profile row
delete_user_profile(P, E, u) ==
    [profiles |-> [P EXCEPT ![u] = NoProfile],
     entries |-> [k \in EntryKeys |-> IF k[1] = u THEN NoEntry ELSE E[k]],
     ret |-> P[u].present]

(***************************************************************************)
(* handlers/edit_profile.py: update_user_schedule                          *)
(***************************************************************************)
\* update_user_schedule(message, u): [profiles, jobs, stats, ret]; ret is
\* "updated", "partial", "error" (the except clause) or "none" (early return)
update_user_schedule(P, J, st, u, t) ==
    LET profile == P[u]
        defaults == calculate_notification_defaults(profile.wakeuptime_usual,
                                                    profile.bedtime_usual)
        use_default == profile.use_default_notifications
        notification_times == IF use_default THEN defaults.times
                              ELSE profile.notification_times
        P1 == IF use_default THEN [P EXCEPT ![u].notification_times = defaults.times]
              ELSE P
        r == reschedule_user_notifications(J, st, u, notification_times,
                                           profile.timezone, t)
    IN  IF ~profile.present
        THEN [profiles |-> P, jobs |-> J, stats |-> st, ret |-> "none"]
        ELSE IF use_default /\ (profile.bedtime_usual = NoString
                                \/ profile.wakeuptime_usual = NoString)
        THEN [profiles |-> P, jobs |-> J, stats |-> st, ret |-> "none"]
        ELSE IF use_default /\ ~defaults.ok
        THEN [profiles |-> P, jobs |-> J, stats |-> st, ret |-> "error"]
        ELSE IF r.ret /\ Len(notification_times) < 3
        \* notification_times[2] raises IndexError after the reschedule
        THEN [profiles |-> P1, jobs |-> r.jobs, stats |-> r.stats, ret |-> "error"]
        ELSE [profiles |-> P1, jobs |-> r.jobs, stats |-> r.stats,
              ret |-> IF r.ret THEN "updated" ELSE "partial"]

\* [p.strip() for p in text.split(",")]
StripAll(parts) == [i \in 1..Len(parts) |-> Strip(parts[i])]

\* [validate_time(t) for t in parts]
ValidateAll(parts) == [i \in 1..Len(parts) |-> validate_time(parts[i])]

(***************************************************************************)
(* Handlers as actions                                                     *)
(***************************************************************************)
\* callback_remind_later for the callback data remind_later_<p> of user u,
\* a button the user holds since a reminder offered it
RemindLater(u, p, db_ok) ==
    LET k == <<u, today(now), p>>
        E1 == get_or_create_entry(entries, k)
        remind_count == E1[k].remind_later_count
        inc == increment_remind_later_count(E1, k, db_ok)
        new_count == remind_count + 1
        r == schedule_onetime_reminder(jobs, stats, u, p, new_count,
                                       REMIND_LATER_INTERVAL, now)
    IN  /\ running
        /\ <<u, p>> \in ghost.offered
        /\ stats.jobs_created + 1 <= MaxJobsCreated
        /\ IF remind_count >= REMIND_LATER_MAX_COUNT
           THEN /\ entries' = E1
                /\ last' = Done("remind_later", u, p, <<>>, "", remind_count, 0, FALSE,
                                NoJobId, {})
                /\ UNCHANGED <<jobs, stats, ghost>>
           ELSE /\ entries' = inc.entries
                /\ jobs' = r.jobs
                /\ stats' = r.stats
                /\ last' = Done("remind_later", u, p, <<>>, "", remind_count, 0,
                                r.ret # NoJobId, r.ret, {})
                /\ ghost' = IF r.ret # NoJobId
                            THEN [ghost EXCEPT !.accepted[k] = @ + 1]
                            ELSE ghost
        /\ UNCHANGED <<running, now, profiles, dialogue>>

\* upsert_entry(user, day, period, {skipped: True, skipped_at: now})
upsert_skipped(E, k, t) ==
    IF E[k].present THEN [E EXCEPT ![k].skipped = TRUE, ![k].skipped_at = t]
    ELSE [E EXCEPT ![k] = [EntryRow(0) EXCEPT !.skipped = TRUE, !.skipped_at = t]]

\* mark_entry_completed(entry id) for the entry under k, if there is one
mark_entry_completed(E, k, t) ==
    IF E[k].present THEN [E EXCEPT ![k].completed_at = t] ELSE E

\* callback_skip_checkin for the callback data skip_checkin_<p> of user u
SkipCheckin(u, p) ==
    /\ entries' = upsert_skipped(entries, <<u, today(now), p>>, now)
    /\ last' = Done("skip", u, p, <<>>, "", 0, 0, TRUE, NoJobId, {})
    /\ UNCHANGED <<running, jobs, stats, now, profiles, ghost, dialogue>>

\* process_notes, the last step of a check-in dialogue: the notes are stored
\* unless skipped (with_notes), then the entry of the day is marked completed
CompleteCheckin(u, p, with_notes) ==
    LET k == <<u, today(now), p>>
        E1 == IF with_notes THEN get_or_create_entry(entries, k) ELSE entries
    IN  /\ entries' = mark_entry_completed(E1, k, now)
        /\ last' = Done("complete", u, p, <<>>, "", 0, 0, E1[k].present, NoJobId, {})
        /\ UNCHANGED <<running, jobs, stats, now, profiles, ghost, dialogue>>

\* process_delete_profile: delete_user_profile, then remove_user_schedule
\* when the profile row was deleted
DeleteProfile(u) ==
    LET d == delete_user_profile(profiles, entries, u)
        r == remove_user_schedule(jobs, stats, u)
    IN  /\ running
        /\ profiles' = d.profiles
        /\ entries' = d.entries
        /\ IF d.ret
           THEN jobs' = r.jobs /\ stats' = r.stats
           ELSE UNCHANGED <<jobs, stats>>
        /\ last' = Done("delete_profile", u, "", <<>>, "", 0,
                        IF d.ret THEN r.ret ELSE 0, d.ret, NoJobId, {})
        /\ UNCHANGED <<running, now, ghost, dialogue>>

\* save_profile at the end of the registration dialogue: create_profile,
\* then schedule_user_notifications with the times and zone of the dialogue
SaveProfile(u, row) ==
    LET r == schedule_user_notifications(jobs, stats, u, row.notification_times,
                                         row.timezone, now)
    IN  /\ running
        /\ ~profiles[u].present
        /\ stats.jobs_created + Len(PERIODS) <= MaxJobsCreated
        /\ profiles' = [profiles EXCEPT ![u] = row]
        /\ jobs' = r.jobs
        /\ stats' = r.stats
        /\ last' = Done("save_profile", u, "", row.notification_times, row.timezone,
                        0, r.ret, TRUE, NoJobId, {})
        /\ UNCHANGED <<running, now, entries, ghost, dialogue>>

\* process_edit_notifications for the message text of user u
EditNotifications(u, text, db_ok) ==
    LET parts == StripAll(Split(Strip(text), ","))
        validated == ValidateAll(parts)
        valid == Len(parts) = 3 /\ \A i \in 1..Len(parts) : validated[i] # NoString
        up == update_notification_times(profiles, u, validated, db_ok)
        r == update_user_schedule(up.profiles, jobs, stats, u, now)
    IN  /\ running
        /\ profiles[u].present
        /\ stats.jobs_created + Len(PERIODS) <= MaxJobsCreated
        /\ IF ~valid
           THEN /\ last' = Done("edit", u, "", <<>>, "", 0, 0, FALSE, NoJobId, {})
                /\ UNCHANGED <<profiles, jobs, stats>>
           ELSE IF ~up.ret
           THEN /\ last' = Done("edit", u, "", validated, "", 0, 0, FALSE, NoJobId, {})
                /\ UNCHANGED <<profiles, jobs, stats>>
           ELSE /\ profiles' = r.profiles
                /\ jobs' = r.jobs
                /\ stats' = r.stats
                /\ last' = Done("edit", u, "", validated, profiles[u].timezone, 0, 0,
                                TRUE, NoJobId, {})
        /\ UNCHANGED <<running, now, entries, ghost, dialogue>>

(***************************************************************************)
(* Inputs of the handlers                                                  *)
(***************************************************************************)
W0630 == <<"0", "6", ":", "3", "0">>

B2330 == <<"2", "3", ":", "3", "0">>

\* the profile rows the registration dialogue builds: notify_default stores
\* the computed defaults with the flag set, process_custom_notifications the
\* validated custom times with the flag cleared
DefaultRow(tz) ==
    ProfileRow(B2330, W0630, tz, calculate_notification_defaults(W0630, B2330).times,
               TRUE)

CustomRow(tz) == ProfileRow(B2330, W0630, tz, <<T0800, T1430, T2100>>, FALSE)

RegistrationRows == {DefaultRow(tz) : tz \in TzDatabase} \cup {CustomRow(tz) : tz \in TzDatabase}

\* "08:15, 14:45, 22:00"
EditPlain ==
    <<"0", "8", ":", "1", "5", ",", " ", "1", "4", ":", "4", "5", ",", " ",
      "2", "2", ":", "0", "0">>

\* "9.15,14-30,24:00": other separators, one-digit hour, 24:00
EditLoose ==
    <<"9", ".", "1", "5", ",", "1", "4", "-", "3", "0", ",", "2", "4", ":", "0", "0">>

\* "08:00,14:30": two times
EditTwo == <<"0", "8", ":", "0", "0", ",", "1", "4", ":", "3", "0">>

\* "08:00, 25:00, 21:00": the second is no time
EditBad ==
    <<"0", "8", ":", "0", "0", ",", " ", "2", "5", ":", "0", "0", ",", " ",
      "2", "1", ":", "0", "0">>

EditInputs == {EditPlain, EditLoose, EditTwo, EditBad}

(***************************************************************************)
(* SpecSnooze: the remind-later dialogue of one user over time.            *)
(* The button is pressed at a sampled instant or right after a reminder.   *)
(***************************************************************************)
NextSnooze ==
    \/ StartScheduler
    \/ SaveProfile(1, DefaultRow("UTC"))
    \/ \E j \in jobs, d \in BOOLEAN : FireRecurring(j, d)
    \/ \E u \in Users, db_ok \in BOOLEAN :
           /\ now \in Instants \/ last.op = "send"
           /\ RemindLater(u, "morning", db_ok)
    \/ \E j \in jobs, d \in BOOLEAN : FireOnetime(j, d)
    \/ \E j \in jobs : MissOnetime(j)
    \/ \E u \in Users : DeleteProfile(u)
    \/ \E t \in Instants \cup {j.next_run_time : j \in jobs} : Tick(t)

SpecSnooze == Init /\ [][NextSnooze]_vars

(***************************************************************************)
(* SpecEdit: registration and the direct edit of the notification times.   *)
(***************************************************************************)
NextEdit ==
    \/ StartScheduler
    \/ \E u \in Users, row \in RegistrationRows : SaveProfile(u, row)
    \/ \E u \in Users, text \in EditInputs, db_ok \in BOOLEAN :
           EditNotifications(u, text, db_ok)
    \/ \E u \in Users : DeleteProfile(u)

SpecEdit == Init /\ [][NextEdit]_vars

(***************************************************************************)
(* SpecInputs: the schedule operations of one user on every input list.    *)
(***************************************************************************)
NextInputs ==
    \/ StartScheduler
    \/ \E T \in TimesInputs, tz \in TzInputs : ScheduleAll(1, T, tz)
    \/ \E T \in TimesInputs, tz \in TzInputs : Reschedule(1, T, tz)
    \/ RemoveAll(1)

SpecInputs == Init /\ [][NextInputs]_vars

(***************************************************************************)
(* Properties                                                              *)
(***************************************************************************)
\* the recurring jobs bound to user u
RecurringJobsOf(u) == {j \in jobs : j.trigger = "cron" /\ j.user = u}

\* the one-shot jobs of the set J bound to user u
OnetimeJobsOf(J, u) == {j \in J : j.trigger = "date" /\ j.user = u}

\* s is a time of the form HH:MM, hour 0..23 and minute 0..59
ValidHHMM(s) ==
    /\ Len(s) = 5
    /\ IsDigit(s[1]) /\ IsDigit(s[2]) /\ s[3] = ":" /\ IsDigit(s[4]) /\ IsDigit(s[5])
    /\ DigitVal(s[1]) * 10 + DigitVal(s[2]) <= 23
    /\ DigitVal(s[4]) * 10 + DigitVal(s[5]) <= 59

HourOf(s) == DigitVal(s[1]) * 10 + DigitVal(s[2])

MinuteOf(s) == DigitVal(s[4]) * 10 + DigitVal(s[5])

\* user u has a recurring job for period number i at the time s in zone tz,
\* under the id made of the user id and the period only
HasRecurringJob(u, i, s, tz) ==
    \E j \in RecurringJobsOf(u) :
        /\ j.id = <<"notif", u, PERIODS[i]>>
        /\ j.period = PERIODS[i]
        /\ j.hour = HourOf(s) /\ j.minute = MinuteOf(s)
        /\ j.tz = tz

\* C1 (as stated): for every (user, day, period) at most REMIND_LATER_MAX_COUNT
\* remind-later requests are accepted, an accepted request being one that
\* created a one-shot job; every later request is refused.
C1_SnoozeBound ==
    \A k \in EntryKeys : ghost.accepted[k] <= REMIND_LATER_MAX_COUNT

\* C2: when schedule_user_notifications has been called with three valid times
\* and a known timezone, the user holds exactly 3 recurring jobs, under the
\* ids of the three periods, at the given times and timezone; this is so after
\* the first call and after a repeated call with the same inputs, which
\* therefore leaves 3 jobs (not 6), the same as after the first call.
C2_ScheduleIdempotent ==
    (/\ last.op = "schedule"
     /\ Len(last.times) = 3
     /\ \A i \in 1..3 : ValidHHMM(last.times[i])
     /\ IsKnownTimezone(last.tz))
    => /\ Cardinality(RecurringJobsOf(last.user)) = 3
       /\ last.ret = 3
       /\ \A i \in 1..3 : HasRecurringJob(last.user, i, last.times[i], last.tz)

\* C2 witness: a second call with the same user, valid times and timezone has
\* just returned, at a later instant than the first could have been made
C2_Witness ==
    /\ last.op = "schedule" /\ last.repeat /\ now > 0
    /\ Len(last.times) = 3 /\ \A i \in 1..3 : ValidHHMM(last.times[i])
    /\ IsKnownTimezone(last.tz)
    /\ Cardinality(RecurringJobsOf(last.user)) = 3

\* C3: in every reachable state the job table holds at most one recurring job
\* per (user, period), hence at most 3 per user, each under the id derived
\* from the user id and the period only.
C3_OneJobPerPeriod ==
    \A u \in Users :
        /\ \A p \in PeriodSet :
               Cardinality({j \in RecurringJobsOf(u) : j.period = p}) <= 1
        /\ Cardinality(RecurringJobsOf(u)) <= Len(PERIODS)
        /\ \A j \in RecurringJobsOf(u) : j.id = <<"notif", u, j.period>>

\* C3 witness: six recurring jobs were created for one user, none was removed,
\* and that user holds 3 of them beside a one-shot job: creation replaced
C3_Witness ==
    /\ stats.jobs_removed = 0
    /\ \E u \in Users :
           /\ Cardinality(RecurringJobsOf(u)) = 3
           /\ \A j \in jobs : j.trigger = "cron" => j.user = u
           /\ stats.jobs_created
                  - Cardinality({j \in jobs : j.trigger = "date"}) = 2 * Len(PERIODS)

\* C4 (as stated): after reschedule(u, T, tz) followed by removeAll(u) the job
\* table holds no job of user u, and the jobs of every other user are those
\* held before the reschedule.
C4_RoundTripNoJobs ==
    last.chained
    => /\ {j \in jobs : j.user = last.user} = {}
       /\ {j \in jobs : j.user # last.user} = {j \in last.pre : j.user # last.user}

\* C4 (amended): after reschedule(u, T, tz) followed by removeAll(u) the job
\* table holds no recurring job of user u; the pending one-shot jobs of u are
\* those held before the reschedule; the jobs of every other user are those
\* held before the reschedule.
C4_RoundTripRecurring ==
    last.chained
    => /\ RecurringJobsOf(last.user) = {}
       /\ OnetimeJobsOf(jobs, last.user) = OnetimeJobsOf(last.pre, last.user)
       /\ {j \in jobs : j.user # last.user} = {j \in last.pre : j.user # last.user}

\* C4 witness: the round trip has completed and its removeAll removed three
\* recurring jobs of a user who keeps a pending one-shot job, while another
\* user has a job
C4_Witness ==
    /\ last.chained
    /\ last.ret = Len(PERIODS)
    /\ OnetimeJobsOf(jobs, last.user) # {}
    /\ \E j \in jobs : j.user \in Users \ {last.user}

\* C5 (as stated): reschedule reports success exactly when it has registered
\* 3 recurring jobs for the user, for every input list of times.
C5_SuccessIffThree ==
    last.op = "reschedule" => (last.ok <=> last.ret = Len(PERIODS))

\* the number of the first three positional times of T that satisfy Valid
CountOf(T, Valid(_)) ==
    Cardinality({i \in 1..Len(PERIODS) : i <= Len(T) /\ Valid(T[i])})

\* C6 (as stated): scheduleAll returns the number of the three positional
\* times that are valid HH:MM, and each period with a valid time has a
\* recurring job at that time and timezone, whatever the other times are.
C6_CountsValidHHMM ==
    last.op = "schedule"
    => /\ last.ret = CountOf(last.times, ValidHHMM)
       /\ \A i \in 1..Len(PERIODS) :
              (i <= Len(last.times) /\ ValidHHMM(last.times[i]))
              => HasRecurringJob(last.user, i, last.times[i], last.tz)

\* the text s, stripped and cut at its colons, has at least two fields of
\* which the first two are integer literals, an hour 0..23 and a minute 0..59
FieldsInRange(s) ==
    LET parts == Split(Strip(s), ":")
    IN  /\ Len(parts) >= 2
        /\ ParseInt(parts[1]).ok /\ ParseInt(parts[2]).ok
        /\ ParseInt(parts[1]).val \in 0..23
        /\ ParseInt(parts[2]).val \in 0..59

\* C6 (amended): with a timezone of the zone database, scheduleAll returns
\* the number of the (at most three) positional times whose first two
\* colon-separated fields are integers with hour 0..23 and minute 0..59, which
\* every valid HH:MM is; each such period then has a recurring job at that
\* hour, minute and timezone, whatever the other times are. With a timezone
\* the zone database does not know it returns 0.
C6_CountsFieldsInRange ==
    last.op = "schedule"
    => IF IsKnownTimezone(last.tz)
       THEN /\ last.ret = CountOf(last.times, FieldsInRange)
            /\ \A i \in 1..Len(PERIODS) :
                   (i <= Len(last.times) /\ FieldsInRange(last.times[i]))
                   => \E j \in RecurringJobsOf(last.user) :
                          /\ j.id = <<"notif", last.user, PERIODS[i]>>
                          /\ j.hour = ParseInt(Split(Strip(last.times[i]), ":")[1]).val
                          /\ j.minute = ParseInt(Split(Strip(last.times[i]), ":")[2]).val
                          /\ j.tz = last.tz
            /\ \A i \in 1..Len(PERIODS) :
                   (i <= Len(last.times) /\ ValidHHMM(last.times[i]))
                   => FieldsInRange(last.times[i])
       ELSE last.ret = 0

\* C6 witness: the day time was refused, the morning and evening times were
\* scheduled: 2 of 3, the evening job is at 21:00
C6_Witness ==
    /\ last.op = "schedule"
    /\ last.times = <<T0800, T2500, T2100>>
    /\ IsKnownTimezone(last.tz)
    /\ last.ret = 2
    /\ HasRecurringJob(last.user, 3, T2100, last.tz)

\* C7: removeAll(u) removes every recurring job of user u that is present and
\* no other job, returns the number it removed (0..3), and a second call
\* right after returns 0 and changes nothing.
C7_RemoveAll ==
    [][\A u \in Users :
           RemoveAll(u)
           => LET mine == RecurringJobsOf(u)
                  again == remove_user_schedule(jobs', stats', u)
              IN  /\ jobs' = jobs \ mine
                  /\ last'.ret = Cardinality(mine)
                  /\ last'.ret \in 0..Len(PERIODS)
                  /\ again.ret = 0
                  /\ again.jobs = jobs' /\ again.stats = stats']_vars

\* C7 witness: removeAll has removed the three recurring jobs of one user
\* while another user holds three
C7_Witness ==
    /\ last.op = "remove" /\ last.ret = Len(PERIODS)
    /\ RecurringJobsOf(last.user) = {}
    /\ \E u \in Users \ {last.user} : Cardinality(RecurringJobsOf(u)) = Len(PERIODS)

\* C8 (as stated): when the edit handler has completed for three valid times
\* T, the stored notification times are T and the user's three recurring jobs
\* are at T in the profile timezone, whatever the default-vs-custom flag.
C8_EditStoresAndSchedules ==
    (last.op = "edit" /\ last.ok)
    => /\ profiles[last.user].notification_times = last.times
       /\ \A i \in 1..Len(PERIODS) :
              HasRecurringJob(last.user, i, last.times[i], profiles[last.user].timezone)

\* a one-shot job the sweep at instant t is to remove: no fire time left, or
\* a fire time more than CLEANUP_AGE_HOURS before t
Stale(j, t) ==
    \/ j.next_run_time = None
    \/ j.next_run_time < t - CLEANUP_AGE_HOURS * SecondsPerHour

\* C9 (as stated): a janitor sweep removes every one-shot job that has no
\* fire time left or whose fire time is more than 24 hours in the past, and
\* leaves every other job in place.
C9_SweepRemovesStale ==
    [][Cleanup => jobs' = {j \in jobs : ~(IsOnetimeId(j.id) /\ Stale(j, now))}]_vars

\* C10: a janitor sweep leaves the jobs whose id lacks the one-shot prefix
\* (the recurring jobs and the janitor's own job) as they were, whether it
\* ends normally or by an exception.
C10_SweepKeepsRecurring ==
    [][Cleanup => {j \in jobs' : ~IsOnetimeId(j.id)} = {j \in jobs : ~IsOnetimeId(j.id)}]_vars

\* C10 witness: a sweep has ended by an exception while the table held a
\* one-shot job, three recurring jobs and the janitor's job
C10_Witness ==
    /\ last.op = "cleanup" /\ ~last.ok
    /\ \E j \in jobs : j.trigger = "date"
    /\ \E u \in Users : Cardinality(RecurringJobsOf(u)) = Len(PERIODS)
    /\ JanitorJob \in jobs

(***************************************************************************)
(* SpecDispatch: reminders are dispatched. A user holds recurring and      *)
(* one-shot jobs, the jobs fire with the channel accepting or rejecting    *)
(* the message, time passes.                                               *)
(***************************************************************************)
\* the snooze counts schedule_onetime_reminder is called with
SnoozeCounts == 1..(REMIND_LATER_MAX_COUNT + 1)

NextDispatch ==
    \/ StartScheduler
    \/ ScheduleAll(1, <<T0800, T1430, T2100>>, "UTC")
    \/ \E p \in PeriodSet, c \in SnoozeCounts : Snooze(1, p, c)
    \/ \E j \in jobs, d \in BOOLEAN : FireRecurring(j, d)
    \/ \E j \in jobs, d \in BOOLEAN : FireOnetime(j, d)
    \/ \E t \in {j.next_run_time : j \in jobs} : Tick(t)

SpecDispatch == Init /\ [][NextDispatch]_vars

DueAt(j, t) ==
    /\ j.trigger = "cron"
    /\ \E day \in Days : cron_occurrence(j, day) = t
    /\ <<j.id, t>> \notin ghost.fired

\* the recurring job j runs at its fire time: send_reminder(bot, user, period, 0)
FireDue(j, delivered) ==
    /\ running
    /\ j \in jobs /\ DueAt(j, now)
    /\ stats' = send_reminder(stats, j.user, j.period, j.remind_count, delivered)
    /\ jobs' = retire_after_run(jobs, j)
    /\ last' = Done("send", j.user, j.period, <<>>, "", j.remind_count, 0, delivered,
                    j.id, {})
    /\ ghost' = [Offer(j.user, j.period, j.remind_count, delivered)
                    EXCEPT !.fired = @ \cup {<<j.id, now>>}]
    /\ UNCHANGED <<running, now, profiles, entries, dialogue>>

\* the clock would pass a fire time at which a registered job has not run
MissesRun(t) ==
    running /\ \E j \in jobs, o \in CronDueTimes(jobs) : now <= o /\ o < t /\ DueAt(j, o)

DailyTimes == { <<T0800, T1430, T2100>>, <<T0800, T1430, T2130>> }

NextDaily ==
    \/ StartScheduler
    \/ \E T \in DailyTimes : ScheduleAll(1, T, "UTC")
    \/ RemoveAll(1)
    \/ \E T \in DailyTimes : Reschedule(1, T, "UTC")
    \/ \E j \in jobs, d \in BOOLEAN : FireDue(j, d)
    \/ \E t \in Instants \cup CronDueTimes(jobs) : ~MissesRun(t) /\ Tick(t)

\* the timer and the executor of a running scheduler are not starved
SpecDaily ==
    /\ Init
    /\ [][NextDaily]_vars
    /\ WF_vars(\E j \in jobs, d \in BOOLEAN : FireDue(j, d))
    /\ WF_vars(\E t \in CronDueTimes(jobs) : ~MissesRun(t) /\ Tick(t))

\* the recurring jobs schedule_reminder can register for user 1 in SpecDaily
DailyJobs ==
    {CronJob(<<"notif", 1, PERIODS[i]>>, HourOf(T[i]), MinuteOf(T[i]), "UTC", 1, PERIODS[i]) :
         T \in DailyTimes, i \in 1..Len(PERIODS)}

\* C12: a recurring job keeps firing. A run of a user's recurring job, whether
\* the send succeeded or was rejected, leaves the job in the table with the
\* same hour, minute and timezone; and a job that ran on day 0 at hh:mm runs
\* again on day 1 at hh:mm unless remove_user_schedule or a reschedule took it
\* out of the table before.
C12_KeepsFiring ==
    /\ [][\A j \in jobs, d \in BOOLEAN :
              FireDue(j, d) =>
                  \E k \in jobs' : /\ k.id = j.id /\ k.hour = j.hour
                                   /\ k.minute = j.minute /\ k.tz = j.tz]_vars
    /\ \A j \in DailyJobs :
           (j \in jobs
            /\ <<j.id, j.hour * SecondsPerHour + j.minute * SecondsPerMinute>>
                   \in ghost.fired)
           ~> (j \notin jobs
               \/ <<j.id, SecondsPerDay + j.hour * SecondsPerHour
                          + j.minute * SecondsPerMinute>> \in ghost.fired)

\* the morning job ran on day 0 with a rejected send and on day 1 again
C12_Witness ==
    /\ \E j \in jobs : /\ j.id = <<"notif", 1, "morning">>
                       /\ {<<j.id, cron_occurrence(j, 0)>>, <<j.id, cron_occurrence(j, 1)>>}
                              \subseteq ghost.fired
    /\ stats.reminders_failed >= 1
    /\ last.op = "send" /\ last.id = <<"notif", 1, "morning">>

\* C13: two remind-later requests for the same user and period obtain distinct
\* one-shot job ids whatever the time between them: a request that passed the
\* limit check gets its job registered under an id of its own, and is not
\* refused because an earlier request holds that id.
C13_DistinctSnoozeIds ==
    (last.op = "remind_later" /\ last.count < REMIND_LATER_MAX_COUNT)
    => /\ last.ok
       /\ last.id # NoJobId
       /\ \E j \in jobs : j.id = last.id /\ j.remind_count = last.count + 1

\* the remind_later_count the database holds for the entry k
PersistedCount(E, k) == IF E[k].present THEN E[k].remind_later_count ELSE 0

\* C14: when a remind-later request is accepted while the persisted snooze
\* count of the entry is c (c < 2), exactly one one-shot job is created, with
\* the fire time now + 15 minutes, bound to the same user and period and to
\* the count c + 1; and when a one-shot job fires, the reminder is dispatched
\* for the job's user and period with the job's count.
C14_AcceptedSnooze ==
    [][/\ \A u \in Users, p \in PeriodSet, db_ok \in BOOLEAN :
              (RemindLater(u, p, db_ok) /\ last'.ok)
              => /\ PersistedCount(entries, <<u, today(now), p>>) < 2
                 /\ Cardinality(jobs' \ jobs) = 1
                 /\ jobs \subseteq jobs'
                 /\ \A j \in jobs' \ jobs :
                        /\ j.trigger = "date"
                        /\ j.next_run_time = now + 15 * 60
                        /\ j.user = u /\ j.period = p
                        /\ j.remind_count
                               = PersistedCount(entries, <<u, today(now), p>>) + 1
                        /\ j.id = last'.id
       /\ \A j \in jobs, d \in BOOLEAN :
              FireOnetime(j, d)
              => /\ now >= j.next_run_time
                 /\ last'.op = "send" /\ last'.user = j.user /\ last'.period = j.period
                 /\ last'.count = j.remind_count
                 /\ last'.msg = reminder_message(j.period, j.remind_count)
                 /\ j \notin jobs']_vars

\* a request accepted at the count 1 had its job fire with the count 2
C14_Witness ==
    /\ last.op = "send" /\ IsOnetimeId(last.id)
    /\ last.count = 2
    /\ now = last.id[4] + 15 * 60
    /\ \E k \in EntryKeys : ghost.accepted[k] = 2

(***************************************************************************)
(* SpecRetire: the life of the one-shot jobs under a running scheduler,    *)
(* whose timer reaches the fire time of a pending job and whose executor   *)
(* runs a due job.                                                         *)
(***************************************************************************)
NextRetire ==
    \/ StartScheduler
    \/ \E u \in Users :
           stats.jobs_created < MaxReminders /\ Snooze(u, "evening", 1)
    \/ \E j \in jobs, d \in BOOLEAN : FireOnetime(j, d)
    \/ \E j \in jobs : MissOnetime(j)
    \/ Cleanup
    \/ \E t \in Instants \cup {j.next_run_time : j \in jobs} : Tick(t)

SpecRetire ==
    /\ Init
    /\ [][NextRetire]_vars
    /\ WF_vars(\E j \in jobs, d \in BOOLEAN : FireOnetime(j, d))
    /\ WF_vars(\E j \in jobs : MissOnetime(j))
    /\ WF_vars(\E t \in {j.next_run_time : j \in jobs} : Tick(t))

\* the instants at which a one-shot job can be created
SnoozeInstants ==
    {t + n * REMIND_LATER_INTERVAL * SecondsPerMinute : t \in Instants, n \in 0..MaxReminders}

\* C15: every one-shot job that is created is eventually absent from the job
\* table while the scheduler keeps running.
C15_OnetimeRetired ==
    \A u \in Users, t \in SnoozeInstants :
        (get_job(jobs, <<"onetime", u, "evening", t>>) # {})
        ~> (get_job(jobs, <<"onetime", u, "evening", t>>) = {})

\* a one-shot job was created, ran with a rejected send and is gone, while the
\* janitor's sweep did not remove any job
C15_Witness ==
    /\ last.op = "send" /\ IsOnetimeId(last.id) /\ ~last.ok
    /\ get_job(jobs, last.id) = {}
    /\ stats.jobs_created = 1 /\ stats.jobs_removed = 1
    /\ stats.last_cleanup = None

(***************************************************************************)
(* SpecActivity: pending one-shot jobs while the user acts: skips or       *)
(* completes the check-in, has the recurring jobs removed or rescheduled.  *)
(* The scheduler's timer and executor are weakly fair, and the scheduler   *)
(* is available at every fire time.                                        *)
(***************************************************************************)
\* the clock would pass the fire time of a pending one-shot job: the timer of
\* a running scheduler wakes it at the earliest fire time of the table
PassesOnetime(t) ==
    \E j \in jobs : j.trigger = "date" /\ j.next_run_time < t

NextActivity ==
    \/ StartScheduler
    \/ ScheduleAll(1, <<T0800, T1430, T2100>>, "UTC")
    \/ RemoveAll(1)
    \/ Reschedule(1, <<T0800, T1430, T2130>>, "UTC")
    \/ /\ stats.reminders_sent + stats.reminders_failed
              + Cardinality({j \in jobs : j.trigger = "date"}) < MaxReminders
       /\ Snooze(1, "day", 1)
    \/ SkipCheckin(1, "day")
    \/ \E with_notes \in BOOLEAN : CompleteCheckin(1, "day", with_notes)
    \/ \E j \in jobs, d \in BOOLEAN : FireOnetime(j, d)
    \/ \E t \in {j.next_run_time : j \in jobs} : ~PassesOnetime(t) /\ Tick(t)

SpecActivity ==
    /\ Init
    /\ [][NextActivity]_vars
    /\ WF_vars(\E j \in jobs, d \in BOOLEAN : FireOnetime(j, d))
    /\ WF_vars(\E t \in {j.next_run_time : j \in jobs} : ~PassesOnetime(t) /\ Tick(t))

\* what a user does between a snooze and its fire time
UserActivity == {"skip", "complete", "remove", "reschedule"}

\* C16: a pending one-shot job is never retracted by user activity. A skip or
\* a completion of the check-in, a removal or a reschedule of the user's
\* recurring jobs leaves every one-shot job in the job table, and a one-shot
\* job pending after such an activity of its user fires and dispatches its
\* reminder.
C16_SnoozeNotRetracted ==
    /\ [][last'.op \in UserActivity
              => {j \in jobs : j.trigger = "date"} = {j \in jobs' : j.trigger = "date"}]_vars
    /\ \A t \in SnoozeInstants :
           (/\ last.op \in UserActivity /\ last.user = 1
            /\ get_job(jobs, <<"onetime", 1, "day", t>>) # {})
           ~> (last.op = "send" /\ last.id = <<"onetime", 1, "day", t>>)

\* the user skipped the check-in of a period whose one-shot job is pending,
\* after the recurring jobs were removed
C16_Witness ==
    /\ last.op = "skip"
    /\ \E j \in jobs : /\ j.trigger = "date" /\ j.user = last.user
                       /\ j.period = last.period /\ j.next_run_time > now
    /\ RecurringJobsOf(last.user) = {}
    /\ stats.jobs_removed >= Len(PERIODS)

\* C17: schedule_onetime_reminder itself enforces the limit: called with a
\* snooze count of REMIND_LATER_MAX_COUNT or more it registers no job and
\* returns a refusal, not a job id.
C17_SchedulerRefuses ==
    [][\A u \in Users, p \in PeriodSet, c \in SnoozeCounts :
           (c >= REMIND_LATER_MAX_COUNT /\ Snooze(u, p, c))
           => (jobs' = jobs /\ last'.id = NoJobId /\ ~last'.ok)]_vars

\* the callback data of the start button of a period
StartButton(period) ==
    CASE period = "morning" -> "start_morning"
      [] period = "day" -> "start_day"
      [] period = "evening" -> "start_evening"

\* C18: for every period and snooze count n >= 0, the dispatched reminder
\* offers remind-later exactly when n < 2, carries the friendly-reminder
\* suffix exactly when n = 1 and the last-chance suffix exactly when n >= 2,
\* and always offers the start of the period's check-in and the skip.
C18_ReminderContent ==
    last.op = "send"
    => /\ last.period \in PeriodSet /\ last.count >= 0
       /\ ("remind_later" \in last.msg.keyboard) <=> (last.count < 2)
       /\ (last.msg.suffix = "friendly") <=> (last.count = 1)
       /\ (last.msg.suffix = "last_chance") <=> (last.count >= 2)
       /\ StartButton(last.period) \in last.msg.keyboard
       /\ "skip_checkin" \in last.msg.keyboard

\* a last-chance reminder of the evening was dispatched, at the count 2
C18_Witness ==
    /\ last.op = "send" /\ last.ok
    /\ last.period = "evening" /\ last.count = 2
    /\ last.msg.suffix = "last_chance"
    /\ IsOnetimeId(last.id)

\* C19: after a user's profile has been deleted successfully, no recurring job
\* of that user is in the job table and the jobs of the other users are the
\* same as before; a user without a stored profile holds no recurring job, so
\* none can fire for that user.
C19_DeletedProfileNoJobs ==
    /\ [][\A u \in Users :
              (DeleteProfile(u) /\ last'.ok)
              => /\ {j \in jobs' : j.trigger = "cron" /\ j.user = u} = {}
                 /\ {j \in jobs' : j.user # u} = {j \in jobs : j.user # u}]_vars
    /\ [](\A u \in Users : ~profiles[u].present => RecurringJobsOf(u) = {})

\* a profile was deleted with its three recurring jobs while another user
\* holds a profile and three recurring jobs
C19_Witness ==
    /\ last.op = "delete_profile" /\ last.ok /\ last.ret = Len(PERIODS)
    /\ ~profiles[last.user].present
    /\ \E u \in Users \ {last.user} :
           profiles[u].present /\ Cardinality(RecurringJobsOf(u)) = Len(PERIODS)

(***************************************************************************)
(* SpecRestart: the process ends and starts again. The job table, the      *)
(* running flag and the statistics live in the memory of the process; the  *)
(* profiles and the entries live in the database. A started process runs   *)
(* on_startup.                                                             *)
(***************************************************************************)
\* get_all_profiles(): the users of the stored profile rows
get_all_profiles(P) == {u \in Users : P[u].present}

\* the process ends: scheduler = AsyncIOScheduler() and _scheduler_stats are
\* module-level objects, built anew by the next process
ProcessExit ==
    /\ running
    /\ running' = FALSE
    /\ jobs' = {}
    /\ stats' = InitStats
    /\ dialogue' = [u \in Users |-> [NoDialogue EXCEPT !.review = dialogue[u].review]]
    /\ last' = Done("exit", 0, "", <<>>, "", 0, 0, TRUE, NoJobId, {})
    /\ UNCHANGED <<now, profiles, entries, ghost>>

\* on_startup of a new process: start_scheduler(bot), then configure_gemini()
OnStartup ==
    /\ ~running
    /\ running' = TRUE
    /\ jobs' = add_job(jobs, JanitorJob, TRUE).jobs
    /\ last' = Done("on_startup", 0, "", <<>>, "", 0, 0, TRUE, NoJobId, {})
    /\ UNCHANGED <<stats, now>>
    /\ DbUnchanged

\* cmd_reload_schedule: /reload_schedule sent by user u
ReloadSchedule(u) ==
    LET r == schedule_user_notifications(jobs, stats, u, profiles[u].notification_times,
                                         profiles[u].timezone, now)
    IN  /\ running
        /\ stats.jobs_created + Len(PERIODS) <= MaxJobsCreated
        /\ IF ~profiles[u].present
           THEN /\ last' = Done("reload", u, "", <<>>, "", 0, 0, FALSE, NoJobId, {})
                /\ UNCHANGED <<jobs, stats>>
           ELSE /\ jobs' = r.jobs
                /\ stats' = r.stats
                /\ last' = Done("reload", u, "", profiles[u].notification_times,
                                profiles[u].timezone, 0, r.ret, TRUE, NoJobId, {})
        /\ UNCHANGED <<running, now>>
        /\ DbUnchanged

NextRestart ==
    \/ OnStartup
    \/ \E u \in Users, row \in RegistrationRows : SaveProfile(u, row)
    \/ \E u \in Users : ReloadSchedule(u)
    \/ \E u \in Users : DeleteProfile(u)
    \/ ProcessExit

\* a process that was started runs its startup handler
SpecRestart ==
    /\ Init
    /\ [][NextRestart]_vars
    /\ WF_vars(OnStartup)

\* C20: after a process restart the recurring jobs are rebuilt from the stored
\* profiles: once the process has ended, every user with a stored profile
\* that holds three valid notification times eventually has three recurring
\* jobs again, or has sent a command in between.
C20_RebuiltOnRestart ==
    \A u \in Users :
        (/\ last.op = "exit"
         /\ u \in get_all_profiles(profiles)
         /\ Len(profiles[u].notification_times) = Len(PERIODS)
         /\ \A i \in 1..Len(PERIODS) : ValidHHMM(profiles[u].notification_times[i]))
        ~> \/ Cardinality(RecurringJobsOf(u)) = Len(PERIODS)
           \/ last.user = u

\* the stored profile of u holds three times of the form HH:MM and a known zone
ValidProfile(u) ==
    /\ profiles[u].present
    /\ Len(profiles[u].notification_times) = Len(PERIODS)
    /\ \A i \in 1..Len(PERIODS) : ValidHHMM(profiles[u].notification_times[i])
    /\ IsKnownTimezone(profiles[u].timezone)

C22_StartIdempotent ==
    /\ [][(StartScheduler /\ running)
              => (jobs' = jobs /\ stats' = stats /\ running' = running)]_vars
    /\ [](running => Cardinality({j \in jobs : j.trigger = "interval"}) = 1)

\* start_scheduler was called on a running scheduler that holds the recurring
\* jobs of a user and a one-shot job
C22_Witness ==
    /\ last.op = "start_scheduler" /\ ~last.ok
    /\ running /\ JanitorJob \in jobs
    /\ \E u \in Users : Cardinality(RecurringJobsOf(u)) = Len(PERIODS)
    /\ \E j \in jobs : j.trigger = "date"

\* schedule_user_notifications(u, T, tz) refused every time of T that is
\* Malformed without effect: the call of schedule_reminder for it returns
\* False and leaves the job table and the statistics as they are, the job of
\* its period is the one held before, and jobs_created grew by the number of
\* times that were scheduled
RefusedWithoutEffect(u, T, tz, Malformed(_)) ==
    /\ \A i \in 1..Len(PERIODS) :
           (i <= Len(T) /\ Malformed(T[i]))
           => /\ schedule_reminder(jobs, stats, u, T[i], PERIODS[i], tz, now)
                     = [jobs |-> jobs, stats |-> stats, ret |-> FALSE]
              /\ get_job(jobs', <<"notif", u, PERIODS[i]>>)
                     = get_job(jobs, <<"notif", u, PERIODS[i]>>)
    /\ stats'.jobs_created = stats.jobs_created + last'.ret

NotValidHHMM(s) == ~ValidHHMM(s)

FieldsOutOfRange(s) == ~FieldsInRange(s)

\* C23 (as stated): schedule_reminder called with a time string that is not a
\* valid HH:MM (malformed, or hour outside 0..23, or minute outside 0..59)
\* returns False and leaves the job table and the jobs_created counter
\* unchanged; an existing job of that period keeps its old time.
C23_MalformedRefused ==
    [][last'.op = "schedule"
           => RefusedWithoutEffect(last'.user, last'.times, last'.tz, NotValidHHMM)]_vars

\* C23 (amended): schedule_reminder called with a time string that has fewer
\* than two colon-separated fields, or whose first two fields are not both
\* integers, or whose hour is outside 0..23 or minute outside 0..59, returns
\* False and leaves the job table and the jobs_created counter unchanged; an
\* existing job of that period keeps its old time.
C23_OutOfRangeRefused ==
    [][last'.op = "schedule"
           => RefusedWithoutEffect(last'.user, last'.times, last'.tz, FieldsOutOfRange)]_vars

\* the day time 25:00 was refused while the user held a day job at 14:30,
\* which is still there; the morning and evening times were scheduled
C23_Witness ==
    /\ last.op = "schedule"
    /\ last.times = <<T0800, T2500, T2100>>
    /\ IsKnownTimezone(last.tz)
    /\ last.ret = 2
    /\ HasRecurringJob(last.user, 2, T1430, last.tz)
    /\ stats.jobs_created = 5

(***************************************************************************)
(* SpecMisfire: the scheduler is transiently unavailable. The clock moves  *)
(* past the fire time of a one-shot job by one of the delays before the    *)
(* scheduler processes the job.                                            *)
(***************************************************************************)
NextMisfire ==
    \/ StartScheduler
    \/ \E u \in Users, c \in 1..REMIND_LATER_MAX_COUNT :
           stats.jobs_created < MaxReminders /\ Snooze(u, "morning", c)
    \/ \E j \in jobs, d \in BOOLEAN : FireOnetime(j, d)
    \/ \E j \in jobs : MissOnetime(j)
    \/ \E t \in {j.next_run_time + late : j \in jobs, late \in Delays} : Tick(t)

SpecMisfire == Init /\ [][NextMisfire]_vars

\* C24: misfire tolerance. A scheduled job whose execution is delayed by at
\* most 5 minutes past its fire time still fires and dispatches its reminder:
\* the scheduler drops no job as missed within 5 minutes of its fire time.
C24_MisfireTolerated ==
    [][\A j \in jobs :
           MissOnetime(j) => now - j.next_run_time > 5 * SecondsPerMinute]_vars

\* C25: a janitor sweep in which a call fails raises nothing to the
\* scheduler, which keeps running with the janitor's periodic job registered,
\* so that the next sweep runs; and it has removed no job other than a stale
\* one-shot job.
C25_FailedSweepHarmless ==
    [][(Cleanup /\ ~last'.ok)
           => /\ running' /\ JanitorJob \in jobs'
              /\ jobs' \subseteq jobs
              /\ \A j \in jobs \ jobs' : IsOnetimeId(j.id) /\ Stale(j, now)
              /\ stats'.jobs_created = stats.jobs_created]_vars

\* a sweep has ended by an exception at an instant at which a one-shot job
\* was stale, and the job is still there
C25_Witness ==
    /\ last.op = "cleanup" /\ ~last.ok /\ last.ret = 0
    /\ running /\ JanitorJob \in jobs
    /\ \E j \in jobs : IsOnetimeId(j.id) /\ Stale(j, now)

(***************************************************************************)
(* send_reminder on the event loop. The coroutine has one suspension       *)
(* point, the await of bot.send_message (line 62); what precedes it and    *)
(* what follows it run without interruption. ghost.inflight holds the      *)
(* invocations suspended there, ghost.started counts the invocations made, *)
(* ghost.finished those that have returned since the statistics were last  *)
(* reset.                                                                  *)
(***************************************************************************)
\* reset_scheduler_stats: the counters return to zero, last_cleanup is kept
reset_scheduler_stats(st) ==
    [reminders_sent |-> 0, reminders_failed |-> 0, jobs_created |-> 0,
     jobs_removed |-> 0, last_cleanup |-> st.last_cleanup]

\* A recurring job fires: send_reminder composes the message and suspends at
\* await bot.send_message
BeginSend(j) ==
    /\ running
    /\ j \in jobs /\ j.trigger = "cron"
    /\ ghost.started < MaxReminders
    /\ ghost' = [ghost EXCEPT !.started = @ + 1,
                              !.inflight = @ \cup {[id |-> j.id, user |-> j.user,
                                                    period |-> j.period,
                                                    remind_count |-> j.remind_count,
                                                    n |-> ghost.started + 1]}]
    /\ last' = Done("begin_send", j.user, j.period, <<>>, "", j.remind_count, 0, TRUE,
                    j.id, {})
    /\ UNCHANGED <<running, jobs, stats, now, profiles, entries, dialogue>>

\* The channel answers a suspended send_reminder, which resumes, counts the
\* outcome and returns
EndSend(i, delivered) ==
    /\ i \in ghost.inflight
    /\ stats' = send_reminder(stats, i.user, i.period, i.remind_count, delivered)
    /\ ghost' = [Offer(i.user, i.period, i.remind_count, delivered)
                    EXCEPT !.inflight = @ \ {i}, !.finished = @ + 1]
    /\ last' = Done("send", i.user, i.period, <<>>, "", i.remind_count, 0, delivered,
                    i.id, {})
    /\ UNCHANGED <<running, jobs, now, profiles, entries, dialogue>>

\* reset_scheduler_stats()
ResetStats ==
    /\ stats' = reset_scheduler_stats(stats)
    /\ ghost' = [ghost EXCEPT !.finished = 0]
    /\ last' = Done("reset_stats", 0, "", <<>>, "", 0, 0, TRUE, NoJobId, {})
    /\ UNCHANGED <<running, jobs, now, profiles, entries, dialogue>>

NextStats ==
    \/ StartScheduler
    \/ \E u \in Users : ScheduleAll(u, <<T0800, T1430, T2100>>, "Europe/Kyiv")
    \/ \E j \in jobs : BeginSend(j)
    \/ \E i \in ghost.inflight, delivered \in BOOLEAN : EndSend(i, delivered)
    \/ ResetStats

SpecStats == Init /\ [][NextStats]_vars

\* C26: the counters of sent and failed reminders are exact: between two
\* resets their sum is the number of send_reminder invocations that have
\* returned, each invocation adds one to exactly one of the two, also when
\* invocations of several users are suspended together, and no counter
\* decreases except by a reset.
C26_CountersExact ==
    /\ [](stats.reminders_sent + stats.reminders_failed = ghost.finished)
    /\ [][last'.op = "send"
             => \/ /\ stats'.reminders_sent = stats.reminders_sent + 1
                   /\ stats'.reminders_failed = stats.reminders_failed
                \/ /\ stats'.reminders_sent = stats.reminders_sent
                   /\ stats'.reminders_failed = stats.reminders_failed + 1]_vars
    /\ [][last'.op # "reset_stats"
             => /\ stats'.reminders_sent >= stats.reminders_sent
                /\ stats'.reminders_failed >= stats.reminders_failed
                /\ stats'.jobs_created >= stats.jobs_created
                /\ stats'.jobs_removed >= stats.jobs_removed]_vars

\* an invocation of one user has returned while an invocation of the other
\* user, begun before, is still suspended
C26_Witness ==
    /\ last.op = "send"
    /\ ghost.finished = 1
    /\ stats.reminders_sent + stats.reminders_failed = 1
    /\ \E i \in ghost.inflight : i.user # last.user /\ i.n = 1

(***************************************************************************)
(* SpecValidators: the sleep validators of utils/validators.py, each       *)
(* applied to a pair of time strings drawn at the start.                   *)
(***************************************************************************)
\* the minutes of the hour the inputs take
ClockMinutes == {0, 1, 30, 59}

\* every hour with these minutes, and strings that are no HH:MM
ClockInputs ==
    {FormatHHMM(h, m) : h \in 0..23, m \in ClockMinutes}
        \cup {T7c5, T2500, T1260, Tabcd, T0730NoColon}

InitValidators ==
    /\ running = FALSE
    /\ jobs = {}
    /\ stats = InitStats
    /\ now = 0
    /\ profiles = [u \in Users |-> NoProfile]
    /\ entries = [k \in EntryKeys |-> NoEntry]
    /\ \E a \in ClockInputs, b \in ClockInputs :
           last = [NoLast EXCEPT !.op = "input", !.times = <<a, b>>]
    /\ ghost = [offered |-> {}, accepted |-> [k \in EntryKeys |-> 0], fired |-> {},
                inflight |-> {}, started |-> 0, finished |-> 0,
                handlers |-> {}, increments |-> [k \in EntryKeys |-> 0]]
    /\ dialogue = [u \in Users |-> NoDialogue]

\* calculate_sleep_duration(bedtime, wakeup) on the pair drawn
SleepDuration ==
    LET r == calculate_sleep_duration(last.times[1], last.times[2])
    IN  /\ last.op = "input"
        /\ last' = [Done("sleep_duration", 0, "", last.times, "", 0, r.minutes, r.ok,
                         NoJobId, {}) EXCEPT !.out = <<r.minutes>>]
        /\ UNCHANGED <<running, jobs, stats, now, profiles, entries, ghost, dialogue>>

\* validate_sleep_schedule(bedtime, wakeup) on the pair drawn
ValidateSleep ==
    LET r == validate_sleep_schedule(last.times[1], last.times[2])
    IN  /\ last.op = "input"
        /\ last' = [Done("validate_sleep", 0, "", last.times, "", 0, 0, r[1],
                         NoJobId, {}) EXCEPT !.out = r]
        /\ UNCHANGED <<running, jobs, stats, now, profiles, entries, ghost, dialogue>>

\* calculate_notification_defaults(wakeup, bedtime) on the pair drawn
NotificationDefaults ==
    LET r == calculate_notification_defaults(last.times[1], last.times[2])
    IN  /\ last.op = "input"
        /\ last' = [Done("notification_defaults", 0, "", last.times, "", 0,
                         Len(r.times), r.ok, NoJobId, {}) EXCEPT !.out = r.times]
        /\ UNCHANGED <<running, jobs, stats, now, profiles, entries, ghost, dialogue>>

NextValidators ==
    \/ SleepDuration
    \/ ValidateSleep
    \/ NotificationDefaults

SpecValidators == InitValidators /\ [][NextValidators]_vars

\* the minute of the day of a valid HH:MM
MinuteOfDay(s) == HourOf(s) * 60 + MinuteOf(s)

T0200 == <<"0", "2", ":", "0", "0">>

T0600 == <<"0", "6", ":", "0", "0">>

T0700 == <<"0", "7", ":", "0", "0">>

T1000 == <<"1", "0", ":", "0", "0">>

T1400 == <<"1", "4", ":", "0", "0">>

T2200 == <<"2", "2", ":", "0", "0">>

T2300 == <<"2", "3", ":", "0", "0">>

\* C27: for valid HH:MM bedtime b and wakeup w the sleep duration is w - b
\* minutes when w > b and w + 1440 - b minutes when w <= b, in hours; it lies
\* in (0, 24] hours, is 24 hours for equal clock times, 8 for 23:00/07:00,
\* 12 for 22:00/10:00 and 4 for 02:00/06:00.
C27_SleepDuration ==
    (last.op = "sleep_duration" /\ ValidHHMM(last.times[1]) /\ ValidHHMM(last.times[2]))
        => LET b == MinuteOfDay(last.times[1])
               w == MinuteOfDay(last.times[2])
               d == last.out[1]
           IN  /\ last.ok
               /\ d = IF w > b THEN w - b ELSE w + MinutesPerDay - b
               /\ 0 < d /\ d <= 24 * 60
               /\ (last.times[1] = last.times[2] => d = 24 * 60)
               /\ (last.times = <<T2300, T0700>> => d = 8 * 60)
               /\ (last.times = <<T2200, T1000>> => d = 12 * 60)
               /\ (last.times = <<T0200, T0600>> => d = 4 * 60)

\* the duration of equal clock times has been computed
C27_Witness ==
    /\ last.op = "sleep_duration" /\ last.ok
    /\ last.times = <<T2300, T2300>>
    /\ last.out = <<24 * 60>>

\* the verdict of validate_sleep_schedule on a pair of valid HH:MM is the one
\* of the duration d: valid for 4 h <= d <= 12 h, too short below, too long
\* above
VerdictByDuration ==
    (ValidHHMM(last.times[1]) /\ ValidHHMM(last.times[2]))
        => LET b == MinuteOfDay(last.times[1])
               w == MinuteOfDay(last.times[2])
               d == IF w > b THEN w - b ELSE w + MinutesPerDay - b
           IN  /\ last.out[1] <=> (4 * 60 <= d /\ d <= 12 * 60)
               /\ last.out = <<FALSE, "too short">> <=> d < 4 * 60
               /\ last.out = <<FALSE, "too long">> <=> d > 12 * 60
               /\ last.out[1] => last.out[2] = "none"

\* s is one or two digits, a colon, one or two digits, with hour 0..23 and
\* minute 0..59: the strings the format %H:%M reads
ReadableHM(s) ==
    \E k \in 2..3 :
        /\ Len(s) \in (k + 1)..(k + 2) /\ s[k] = ":"
        /\ AllDigits(SubSeq(s, 1, k - 1)) /\ AllDigits(SubSeq(s, k + 1, Len(s)))
        /\ DigitsValue(SubSeq(s, 1, k - 1), 0) <= 23
        /\ DigitsValue(SubSeq(s, k + 1, Len(s)), 0) <= 59

\* C28 (as stated): for valid HH:MM pairs validate_sleep_schedule returns
\* valid exactly when the duration d satisfies 4 h <= d <= 12 h, a too-short
\* failure exactly when d < 4 h, a too-long failure exactly when d > 12 h;
\* for a time string that is no valid HH:MM it returns a failure value and
\* raises nothing.
C28_MalformedFails ==
    last.op = "validate_sleep"
        => /\ VerdictByDuration
           /\ (~ValidHHMM(last.times[1]) \/ ~ValidHHMM(last.times[2]))
                  => ~last.out[1]

\* C28 (amended): the verdict on valid HH:MM pairs is as stated; a failure
\* value is returned, and nothing raised, for a time string that the format
\* %H:%M cannot read, while a string with a one-digit hour or minute, like
\* 7:5, is read as a time and the pair judged by its duration.
C28_UnreadableFails ==
    last.op = "validate_sleep"
        => /\ VerdictByDuration
           /\ (~ReadableHM(last.times[1]) \/ ~ReadableHM(last.times[2]))
                  => last.out = <<FALSE, "invalid format">>
           /\ (ReadableHM(last.times[1]) /\ ReadableHM(last.times[2]))
                  => last.out[2] # "invalid format"

\* a pair whose wakeup is written 7:5 has been read as 23:00/07:05 and
\* accepted
C28_Witness ==
    /\ last.op = "validate_sleep"
    /\ last.times = <<T2300, T7c5>>
    /\ last.out = <<TRUE, "none">>

\* C29: for valid HH:MM wakeup w and bedtime b the default notification
\* times are exactly the three clock times w + 1 h, w + 7 h and b - 2 h, each
\* modulo 24 hours and a valid HH:MM (07:00/23:00 gives 08:00, 14:00, 21:00);
\* the next-day adjustment of the evening time leaves its clock time alone.
C29_NotificationDefaults ==
    (last.op = "notification_defaults"
        /\ ValidHHMM(last.times[1]) /\ ValidHHMM(last.times[2]))
        => LET w == MinuteOfDay(last.times[1])
               b == MinuteOfDay(last.times[2])
               Clock(x) == FormatHHMM((x % MinutesPerDay) \div 60, x % 60)
           IN  /\ last.ok
               /\ Len(last.out) = 3
               /\ last.out = <<Clock(w + 60), Clock(w + 7 * 60), Clock(b - 2 * 60)>>
               /\ \A i \in 1..3 : ValidHHMM(last.out[i])
               /\ (last.times = <<T0700, T2300>> => last.out = <<T0800, T1400, T2100>>)

\* the defaults of a bedtime less than two hours after midnight, whose
\* evening time falls on the day before and is moved a day on
C29_Witness ==
    /\ last.op = "notification_defaults" /\ last.ok
    /\ last.times = <<T1000, <<"0", "1", ":", "3", "0">> >>
    /\ last.out = << <<"1", "1", ":", "0", "0">>, <<"1", "7", ":", "0", "0">>,
                     <<"2", "3", ":", "3", "0">> >>

(***************************************************************************)
(* handlers/regestration.py: the registration dialogue. The dispatcher     *)
(* keeps a state and a data dictionary per user; a message is handled by   *)
(* the handler of the state, a press of an inline button by the handler of *)
(* the button, whatever message the button is on.                          *)
(***************************************************************************)
\* BTN_BACK, the arrow written <
BTN_BACK == <<"<", " ", "B", "a", "c", "k">>

\* the states before the sleep schedule, in the order of the dialogue
BodySteps == <<"gender", "age", "height", "weight", "activity_level">>

LANGUAGE_TO_TIMEZONE == [uk |-> "Europe/Kyiv", en |-> "UTC"]

DEFAULT_TIMEZONE == "UTC"

\* detect_timezone_from_language(language_code)
detect_timezone_from_language(language_code) ==
    IF language_code \in DOMAIN LANGUAGE_TO_TIMEZONE
    THEN LANGUAGE_TO_TIMEZONE[language_code]
    ELSE DEFAULT_TIMEZONE

UpperChars == <<"C", "K", "T", "U">>

LowerChars == <<"c", "k", "t", "u">>

\* str.lower() on the letters the model uses
Lower(s) ==
    [i \in 1..Len(s) |->
        IF \E k \in 1..Len(UpperChars) : UpperChars[k] = s[i]
        THEN LowerChars[CHOOSE k \in 1..Len(UpperChars) : UpperChars[k] = s[i]]
        ELSE s[i]]

\* the entries of timezone_aliases the model uses
timezone_aliases ==
    { << <<"k", "y", "i", "v">>, "Europe/Kyiv" >>,
      << <<"u", "t", "c">>, "UTC" >>,
      << <<"p", "o", "l", "a", "n", "d">>, "Europe/Poland" >> }

\* the spelling of the zone names a user types
ZoneSpellings ==
    { << <<"U", "T", "C">>, "UTC" >>, << <<"M", "a", "r", "s">>, "Mars/Phobos" >> }

\* validate_timezone(timezone_str): the zone name, or "" for None
validate_timezone(timezone_str) ==
    LET t == Strip(timezone_str)
        name == IF \E a \in timezone_aliases : a[1] = Lower(t)
                THEN (CHOOSE a \in timezone_aliases : a[1] = Lower(t))[2]
                ELSE IF \E z \in ZoneSpellings : z[1] = t
                THEN (CHOOSE z \in ZoneSpellings : z[1] = t)[2]
                ELSE "Unknown"
    IN  IF t = <<>> THEN ""
        ELSE IF IsKnownTimezone(name) THEN name
        ELSE ""

SetDialogue(u, d) == dialogue' = [dialogue EXCEPT ![u] = d]

\* what a handler of the dialogue leaves alone
SchedulerUnchanged == UNCHANGED <<running, jobs, stats, now, profiles, entries, ghost>>

\* start_registration: the button Create Profile
StartRegistration(u) ==
    /\ running
    /\ IF profiles[u].present
       THEN UNCHANGED dialogue
       ELSE SetDialogue(u, [dialogue[u] EXCEPT !.state = "gender"])
    /\ last' = Done("start_registration", u, "", <<>>, "", 0, 0, ~profiles[u].present,
                    NoJobId, {})
    /\ SchedulerUnchanged

\* process_gender .. process_activity on a valid answer: the next state
ProcessBasicInfo(u) ==
    /\ \E i \in 1..Len(BodySteps) :
          /\ dialogue[u].state = BodySteps[i]
          /\ SetDialogue(u, [dialogue[u] EXCEPT !.state =
                                IF i < Len(BodySteps) THEN BodySteps[i + 1]
                                ELSE "bedtime_usual"])
    /\ last' = Done("process_basic_info", u, "", <<>>, "", 0, 0, TRUE, NoJobId, {})
    /\ SchedulerUnchanged

\* process_bedtime on the message text
ProcessBedtime(u, text) ==
    LET time == validate_time(text)
    IN  /\ dialogue[u].state = "bedtime_usual"
        /\ IF text = BTN_BACK
           THEN SetDialogue(u, [dialogue[u] EXCEPT !.state = "activity_level"])
           ELSE IF time = NoString THEN UNCHANGED dialogue
           ELSE SetDialogue(u, [dialogue[u] EXCEPT !.bedtime_usual = time,
                                                   !.state = "wakeuptime_usual"])
        /\ last' = Done("process_bedtime", u, "", <<text>>, "", 0, 0,
                        text # BTN_BACK /\ time # NoString, NoJobId, {})
        /\ SchedulerUnchanged

\* process_wakeup on the message text of a user whose client has the
\* language language_code
ProcessWakeup(u, text, language_code) ==
    LET time == validate_time(text)
        bedtime == dialogue[u].bedtime_usual
        refused == \/ time = NoString
                   \/ bedtime # NoString /\ ~validate_sleep_schedule(bedtime, time)[1]
    IN  /\ dialogue[u].state = "wakeuptime_usual"
        /\ IF text = BTN_BACK
           THEN SetDialogue(u, [dialogue[u] EXCEPT !.state = "bedtime_usual"])
           ELSE IF refused THEN UNCHANGED dialogue
           ELSE SetDialogue(u, [dialogue[u] EXCEPT
                                   !.wakeuptime_usual = time,
                                   !.state = "timezone",
                                   !.detected_timezone =
                                       detect_timezone_from_language(language_code)])
        /\ last' = Done("process_wakeup", u, "", <<text>>, "", 0, 0,
                        text # BTN_BACK /\ ~refused, NoJobId, {})
        /\ SchedulerUnchanged

\* back_from_timezone_message: the text BTN_BACK in the state timezone
BackFromTimezone(u) ==
    /\ dialogue[u].state = "timezone"
    /\ SetDialogue(u, [dialogue[u] EXCEPT !.state = "wakeuptime_usual"])
    /\ last' = Done("back_from_timezone", u, "", <<>>, "", 0, 0, TRUE, NoJobId, {})
    /\ SchedulerUnchanged

\* timezone_correct: the detected zone is taken
TimezoneCorrect(u) ==
    /\ dialogue[u].state = "timezone"
    /\ SetDialogue(u, [dialogue[u] EXCEPT !.timezone = dialogue[u].detected_timezone,
                                          !.state = "habit_tracking"])
    /\ last' = Done("timezone_correct", u, "", <<>>, dialogue[u].detected_timezone, 0, 0,
                    TRUE, NoJobId, {})
    /\ SchedulerUnchanged

\* timezone_change: the zone will be typed
TimezoneChange(u) ==
    /\ dialogue[u].state = "timezone"
    /\ SetDialogue(u, [dialogue[u] EXCEPT !.state = "timezone_manual"])
    /\ last' = Done("timezone_change", u, "", <<>>, "", 0, 0, TRUE, NoJobId, {})
    /\ SchedulerUnchanged

\* process_timezone_manual on the message text
ProcessTimezoneManual(u, text) ==
    LET validated_tz == validate_timezone(text)
    IN  /\ dialogue[u].state = "timezone_manual"
        /\ IF text = BTN_BACK
           THEN SetDialogue(u, [dialogue[u] EXCEPT !.state = "timezone"])
           ELSE IF validated_tz = "" THEN UNCHANGED dialogue
           ELSE SetDialogue(u, [dialogue[u] EXCEPT !.timezone = validated_tz,
                                                   !.state = "habit_tracking"])
        /\ last' = Done("process_timezone_manual", u, "", <<text>>, validated_tz, 0, 0,
                        text # BTN_BACK /\ validated_tz # "", NoJobId, {})
        /\ SchedulerUnchanged

\* process_inline_back: the button go_back of the habits keyboard
ProcessInlineBack(u) ==
    /\ dialogue[u].state = "habit_tracking"
    /\ SetDialogue(u, [dialogue[u] EXCEPT !.state = "timezone"])
    /\ last' = Done("process_inline_back", u, "", <<>>, "", 0, 0, TRUE, NoJobId, {})
    /\ SchedulerUnchanged

\* habits_done: the button continue of the habits keyboard
HabitsDone(u) ==
    /\ dialogue[u].state = "habit_tracking"
    /\ SetDialogue(u, [dialogue[u] EXCEPT !.state = "notification_setup"])
    /\ last' = Done("habits_done", u, "", <<>>, "", 0, 0, TRUE, NoJobId, {})
    /\ SchedulerUnchanged

\* notify_default: the defaults are computed from the sleep times of the data
\* and stored with the flag set; the profile review is shown
NotifyDefault(u) ==
    LET d == dialogue[u]
        times == calculate_notification_defaults(d.wakeuptime_usual, d.bedtime_usual)
    IN  /\ d.state = "notification_setup"
        /\ IF d.wakeuptime_usual = NoString \/ d.bedtime_usual = NoString
           THEN UNCHANGED dialogue
           ELSE SetDialogue(u, [d EXCEPT !.use_default_notifications = TRUE,
                                         !.notification_times = times.times,
                                         !.review = TRUE])
        /\ last' = Done("notify_default", u, "", times.times, "", 0, 0, times.ok,
                        NoJobId, {})
        /\ SchedulerUnchanged

\* process_custom_notifications on the message text
ProcessCustomNotifications(u, text) ==
    LET d == dialogue[u]
        times_raw == StripAll(Split(text, ","))
        validated_times == ValidateAll(times_raw)
        valid == /\ Len(times_raw) = 3
                 /\ \A i \in 1..Len(times_raw) : validated_times[i] # NoString
    IN  /\ d.state = "notification_setup"
        /\ IF text = BTN_BACK
           THEN SetDialogue(u, [d EXCEPT !.state = "habit_tracking"])
           ELSE IF ~valid THEN UNCHANGED dialogue
           ELSE SetDialogue(u, [d EXCEPT !.use_default_notifications = FALSE,
                                         !.notification_times = validated_times,
                                         !.review = TRUE])
        /\ last' = Done("process_custom_notifications", u, "", <<text>>, "", 0, 0,
                        text # BTN_BACK /\ valid, NoJobId, {})
        /\ SchedulerUnchanged

\* save_profile: the button save_profile of a profile review message, in any
\* state of the registration; result is the answer of create_profile
SaveProfileCallback(u, result) ==
    LET d == dialogue[u]
        row == ProfileRow(d.bedtime_usual, d.wakeuptime_usual, d.timezone,
                          d.notification_times, d.use_default_notifications)
        r == schedule_user_notifications(jobs, stats, u, d.notification_times,
                                         d.timezone, now)
    IN  /\ running
        /\ d.review
        /\ d.state # "none"
        /\ stats.jobs_created + Len(PERIODS) <= MaxJobsCreated
        /\ IF result /\ ~profiles[u].present
           THEN /\ profiles' = [profiles EXCEPT ![u] = row]
                /\ jobs' = r.jobs
                /\ stats' = r.stats
           ELSE UNCHANGED <<profiles, jobs, stats>>
        /\ SetDialogue(u, NoDialogue)
        /\ last' = Done("save_profile_callback", u, "", d.notification_times, d.timezone,
                        0, IF result /\ ~profiles[u].present THEN r.ret ELSE 0,
                        result /\ ~profiles[u].present, NoJobId, {})
        /\ UNCHANGED <<running, now, entries, ghost>>

\* start_over: the button start_over of a profile review message
StartOver(u) ==
    /\ dialogue[u].review
    /\ SetDialogue(u, [NoDialogue EXCEPT !.state = "gender"])
    /\ last' = Done("start_over", u, "", <<>>, "", 0, 0, TRUE, NoJobId, {})
    /\ SchedulerUnchanged

(***************************************************************************)
(* SpecRegistration: one user registers.                                   *)
(***************************************************************************)
BedtimeTexts == {B2330, T2200, Tabcd, BTN_BACK}

WakeupTexts == {W0630, T0700, T2300, BTN_BACK}

LanguageCodes == {"uk", "en", "xx"}

TimezoneTexts == { <<"k", "y", "i", "v">>, <<" ", "U", "T", "C", " ">>,
                   <<"M", "a", "r", "s">>, <<"p", "o", "l", "a", "n", "d">>, BTN_BACK }

CustomTexts == {EditPlain, EditTwo, BTN_BACK}

NextRegistration ==
    \/ StartScheduler
    \/ StartRegistration(1)
    \/ ProcessBasicInfo(1)
    \/ \E text \in BedtimeTexts : ProcessBedtime(1, text)
    \/ \E text \in WakeupTexts, lang \in LanguageCodes : ProcessWakeup(1, text, lang)
    \/ BackFromTimezone(1)
    \/ TimezoneCorrect(1)
    \/ TimezoneChange(1)
    \/ \E text \in TimezoneTexts : ProcessTimezoneManual(1, text)
    \/ ProcessInlineBack(1)
    \/ HabitsDone(1)
    \/ NotifyDefault(1)
    \/ \E text \in CustomTexts : ProcessCustomNotifications(1, text)
    \/ \E result \in BOOLEAN : SaveProfileCallback(1, result)
    \/ StartOver(1)

SpecRegistration == Init /\ [][NextRegistration]_vars

\* C30: for every bedtime/wakeup pair accepted by the registration and every
\* valid timezone, when the user has accepted the default notifications and
\* the profile is saved, the user has exactly 3 recurring jobs, one per period
\* under the deterministic ids, firing at wakeup + 1 h, wakeup + 7 h and
\* bedtime - 2 h of the saved profile in its timezone.
C30_RegistrationDefaults ==
    (/\ last.op = "save_profile_callback" /\ last.ok
     /\ profiles[last.user].use_default_notifications
     /\ IsKnownTimezone(profiles[last.user].timezone))
        => LET u == last.user
               w == MinuteOfDay(profiles[u].wakeuptime_usual)
               b == MinuteOfDay(profiles[u].bedtime_usual)
               tz == profiles[u].timezone
               Clock(x) == FormatHHMM((x % MinutesPerDay) \div 60, x % 60)
           IN  /\ Cardinality(RecurringJobsOf(u)) = 3
               /\ HasRecurringJob(u, 1, Clock(w + 60), tz)
               /\ HasRecurringJob(u, 2, Clock(w + 7 * 60), tz)
               /\ HasRecurringJob(u, 3, Clock(b - 2 * 60), tz)

(***************************************************************************)
(* SpecTime: validate_time applied to a text drawn at the start.           *)
(***************************************************************************)
\* the spellings of a number below 100: without and with a leading zero
Spellings(n) ==
    IF n < 10 THEN {<<DigitChars[n + 1]>>, TwoDigits(n)} ELSE {TwoDigits(n)}

TimeTextHours == {0, 9, 10, 23, 24, 25}

TimeTextMinutes == {0, 5, 30, 59, 60}

TimeTextSeparators == {":", ".", "-", " ", "/"}

\* hour, separator, minute in every spelling, bare or between spaces, and
\* texts of another form
TimeTexts ==
    {pad \o h \o <<sep>> \o m \o pad :
         h \in UNION {Spellings(n) : n \in TimeTextHours},
         sep \in TimeTextSeparators,
         m \in UNION {Spellings(n) : n \in TimeTextMinutes},
         pad \in {<<>>, <<" ", " ">>}}
        \cup {<<>>, <<"1", "2">>, Tabcd, T073015, T0730NoColon}

InitTime ==
    /\ running = FALSE
    /\ jobs = {}
    /\ stats = InitStats
    /\ now = 0
    /\ profiles = [u \in Users |-> NoProfile]
    /\ entries = [k \in EntryKeys |-> NoEntry]
    /\ \E text \in TimeTexts : last = [NoLast EXCEPT !.op = "input", !.times = <<text>>]
    /\ ghost = [offered |-> {}, accepted |-> [k \in EntryKeys |-> 0], fired |-> {},
                inflight |-> {}, started |-> 0, finished |-> 0,
                handlers |-> {}, increments |-> [k \in EntryKeys |-> 0]]
    /\ dialogue = [u \in Users |-> NoDialogue]

\* validate_time(text) on the text drawn
ValidateTime ==
    LET r == validate_time(last.times[1])
    IN  /\ last.op = "input"
        /\ last' = [Done("validate_time", 0, "", last.times, "", 0, 0, r # NoString,
                         NoJobId, {}) EXCEPT !.out = r]
        /\ UNCHANGED <<running, jobs, stats, now, profiles, entries, ghost, dialogue>>

NextTime == ValidateTime

SpecTime == InitTime /\ [][NextTime]_vars

\* the text, stripped, is one or two digits, one separator among : . - and
\* whitespace, then one or two digits, the separator being its k-th character
HourSepMinute(t, k) ==
    /\ k \in 2..3 /\ Len(t) \in (k + 1)..(k + 2)
    /\ AllDigits(SubSeq(t, 1, k - 1)) /\ AllDigits(SubSeq(t, k + 1, Len(t)))
    /\ t[k] \in {":", ".", "-", " "}

\* C31: validate_time turns every text of the form H or HH, one separator
\* among : . - or whitespace, M or MM, surrounding whitespace ignored, with
\* hour 0..23 and minute 0..59 into the zero-padded HH:MM (9:5 gives 09:05,
\* 23:5 gives 23:05), 24:00 into 00:00, and returns None for every other text.
C31_TimeNormalised ==
    last.op = "validate_time"
        => LET t == Strip(last.times[1])
               shaped == \E k \in 2..3 : HourSepMinute(t, k)
               k == CHOOSE k \in 2..3 : HourSepMinute(t, k)
               h == DigitsValue(SubSeq(t, 1, k - 1), 0)
               m == DigitsValue(SubSeq(t, k + 1, Len(t)), 0)
           IN  last.out = IF shaped /\ h <= 23 /\ m <= 59 THEN FormatHHMM(h, m)
                          ELSE IF shaped /\ h = 24 /\ m = 0 /\ Len(t) = 5
                          THEN FormatHHMM(0, 0)
                          ELSE NoString


(***************************************************************************)
(* SpecRace: callback_remind_later split at its awaits. Several presses of *)
(* the remind-later button of one user are handled at once; a handler is   *)
(* suspended at the read of the entry, at the read and at the write of     *)
(* increment_remind_later_count, and before schedule_onetime_reminder.     *)
(***************************************************************************)
MaxHandlers == 2

HandlerIds == 1..MaxHandlers

\* the suspended handler with the id n
Frame(n, u, p, k, pc, remind_count, db_count) ==
    [n |-> n, user |-> u, period |-> p, key |-> k, pc |-> pc,
     remind_count |-> remind_count, db_count |-> db_count]

\* callback_remind_later up to the test of the count: the entry is read or
\* created, and the handler answers "last reminder" or goes on to the
\* increment
RemindLaterBegin(u, p) ==
    LET k == <<u, today(now), p>>
        E1 == get_or_create_entry(entries, k)
        remind_count == E1[k].remind_later_count
        free == HandlerIds \ {f.n : f \in ghost.handlers}
    IN  /\ running
        /\ <<u, p>> \in ghost.offered
        /\ free # {}
        /\ ghost.started + Cardinality(PeriodSet) < MaxJobsCreated
        /\ entries' = E1
        /\ IF remind_count >= REMIND_LATER_MAX_COUNT
           THEN /\ last' = Done("remind_later", u, p, <<>>, "", remind_count, 0, FALSE,
                                NoJobId, {})
                /\ ghost' = [ghost EXCEPT !.started = @ + 1]
           ELSE /\ last' = Done("remind_begin", u, p, <<>>, "", remind_count, 0, TRUE,
                                NoJobId, {})
                /\ ghost' = [ghost EXCEPT !.started = @ + 1, !.handlers =
                                @ \cup {Frame(CHOOSE n \in free : \A m \in free : n <= m,
                                              u, p, k, "inc_read", remind_count, 0)}]
        /\ UNCHANGED <<running, jobs, stats, now, profiles, dialogue>>

\* increment_remind_later_count, its get_entry_by_id: the count of the row
RemindLaterIncRead(f) ==
    /\ f \in ghost.handlers /\ f.pc = "inc_read"
    /\ ghost' = [ghost EXCEPT !.handlers = (@ \ {f}) \cup
                    {[f EXCEPT !.pc = "inc_write",
                               !.db_count = entries[f.key].remind_later_count]}]
    /\ last' = Done("remind_read", f.user, f.period, <<>>, "",
                    entries[f.key].remind_later_count, 0, TRUE, NoJobId, {})
    /\ UNCHANGED <<running, jobs, stats, now, profiles, entries, dialogue>>

\* increment_remind_later_count, its update: the count read plus one
RemindLaterIncWrite(f) ==
    /\ f \in ghost.handlers /\ f.pc = "inc_write"
    /\ entries' = [entries EXCEPT ![f.key].remind_later_count = f.db_count + 1]
    /\ ghost' = [ghost EXCEPT !.handlers = (@ \ {f}) \cup {[f EXCEPT !.pc = "schedule"]},
                              !.increments[f.key] = @ + 1]
    /\ last' = Done("remind_write", f.user, f.period, <<>>, "", f.db_count + 1, 0, TRUE,
                    NoJobId, {})
    /\ UNCHANGED <<running, jobs, stats, now, profiles, dialogue>>

\* callback_remind_later after the increment: new_count from the count read
\* at the start, and schedule_onetime_reminder
RemindLaterSchedule(f) ==
    LET new_count == f.remind_count + 1
        r == schedule_onetime_reminder(jobs, stats, f.user, f.period, new_count,
                                       REMIND_LATER_INTERVAL, now)
    IN  /\ f \in ghost.handlers /\ f.pc = "schedule"
        /\ running
        /\ jobs' = r.jobs
        /\ stats' = r.stats
        /\ last' = Done("remind_later", f.user, f.period, <<>>, "", f.remind_count, 0,
                        r.ret # NoJobId, r.ret, {})
        /\ ghost' = [ghost EXCEPT !.handlers = @ \ {f},
                                  !.accepted[f.key] =
                                      IF r.ret # NoJobId THEN @ + 1 ELSE @]
        /\ UNCHANGED <<running, now, profiles, entries, dialogue>>

NextRace ==
    \/ StartScheduler
    \/ SaveProfile(1, DefaultRow("UTC"))
    \/ \E j \in jobs : j.period = "morning" /\ FireRecurring(j, TRUE)
    \/ RemindLaterBegin(1, "morning")
    \/ \E f \in ghost.handlers : RemindLaterIncRead(f)
    \/ \E f \in ghost.handlers : RemindLaterIncWrite(f)
    \/ \E f \in ghost.handlers : RemindLaterSchedule(f)
    \/ \E t \in Instants : Tick(t)

SpecRace == Init /\ [][NextRace]_vars

\* C32: under interleaved remind-later handlers, no (user, day, period) has
\* more than REMIND_LATER_MAX_COUNT accepted requests (each one a one-shot
\* job created), and the stored count equals the number of increments
\* written
C32_SnoozeBoundInterleaved ==
    \A k \in EntryKeys :
        /\ ghost.accepted[k] <= REMIND_LATER_MAX_COUNT
        /\ entries[k].present => entries[k].remind_later_count = ghost.increments[k]


(***************************************************************************)
(* handlers/edit_profile.py: process_edit_input for the fields that change *)
(* the schedule, split at its awaits: the write of the field, the read of  *)
(* the profile in update_user_schedule, the write of the recomputed times, *)
(* and reschedule_user_notifications, which runs without suspension.       *)
(***************************************************************************)
ScheduleFields == {"bedtime_usual", "wakeuptime_usual", "timezone"}

\* the value process_edit_input validates for the field: NoString or "" for
\* a text that is refused
validated_field(field, text) ==
    IF field = "timezone" THEN validate_timezone(text) ELSE validate_time(text)

\* update_user_profile(u, {field: value})
update_profile_field(P, u, field, value) ==
    IF field = "timezone" THEN [P EXCEPT ![u].timezone = value]
    ELSE IF field = "bedtime_usual" THEN [P EXCEPT ![u].bedtime_usual = value]
    ELSE [P EXCEPT ![u].wakeuptime_usual = value]

\* process_edit_input up to update_user_profile: the text is validated and
\* the field written; db_ok = FALSE: the write returned None
EditFieldBegin(u, field, text, db_ok) ==
    LET value == validated_field(field, text)
        valid == IF field = "timezone" THEN value # "" ELSE value # NoString
        free == HandlerIds \ {f.n : f \in ghost.handlers}
    IN  /\ running
        /\ profiles[u].present
        /\ free # {}
        /\ ghost.started < MaxHandlers
        /\ IF valid /\ db_ok
           THEN /\ profiles' = update_profile_field(profiles, u, field, value)
                /\ ghost' = [ghost EXCEPT !.started = @ + 1, !.handlers = @ \cup
                                {[n |-> CHOOSE n \in free : \A m \in free : n <= m,
                                  user |-> u, field |-> field, value |-> value,
                                  pc |-> "read",
                                  old_times |-> profiles[u].notification_times,
                                  times |-> <<>>, tz |-> ""]}]
                /\ last' = Done("edit_begin", u, field, <<>>, "", 0, 0, TRUE, NoJobId, {})
           ELSE /\ last' = Done("edit_refused", u, field, <<>>, "", 0, 0, FALSE, NoJobId,
                                {})
                /\ UNCHANGED <<profiles, ghost>>
        /\ UNCHANGED <<running, jobs, stats, now, entries, dialogue>>

\* update_user_schedule, its get_user_profile: the times to schedule are the
\* defaults of the sleep times read, or the custom times read; the zone is
\* the one read
EditFieldRead(f) ==
    LET profile == profiles[f.user]
        defaults == calculate_notification_defaults(profile.wakeuptime_usual,
                                                    profile.bedtime_usual)
    IN  /\ f \in ghost.handlers /\ f.pc = "read"
        /\ profile.present
        /\ ghost' = [ghost EXCEPT !.handlers = (@ \ {f}) \cup
                        {IF profile.use_default_notifications
                         THEN [f EXCEPT !.pc = IF defaults.ok THEN "write_times"
                                               ELSE "error",
                                        !.times = defaults.times,
                                        !.tz = profile.timezone]
                         ELSE [f EXCEPT !.pc = "reschedule",
                                        !.times = profile.notification_times,
                                        !.tz = profile.timezone]}]
        /\ last' = Done("edit_read", f.user, f.field, <<>>, profile.timezone, 0, 0, TRUE,
                        NoJobId, {})
        /\ UNCHANGED <<running, jobs, stats, now, profiles, entries, dialogue>>

\* update_user_schedule, its update_user_profile(u, {notification_times})
EditFieldWriteTimes(f) ==
    /\ f \in ghost.handlers /\ f.pc = "write_times"
    /\ profiles' = update_notification_times(profiles, f.user, f.times, TRUE).profiles
    /\ ghost' = [ghost EXCEPT !.handlers = (@ \ {f}) \cup {[f EXCEPT !.pc = "reschedule"]}]
    /\ last' = Done("edit_times", f.user, f.field, f.times, f.tz, 0, 0, TRUE, NoJobId, {})
    /\ UNCHANGED <<running, jobs, stats, now, entries, dialogue>>

\* update_user_schedule, its reschedule_user_notifications, and the rest of
\* process_edit_input, which changes no state. last.period: the field
\* edited, last.times: the times stored before the edit, last.out: the value
EditFieldReschedule(f) ==
    LET r == reschedule_user_notifications(jobs, stats, f.user, f.times, f.tz, now)
    IN  /\ f \in ghost.handlers /\ f.pc \in {"reschedule", "error"}
        /\ IF f.pc = "error" THEN UNCHANGED <<jobs, stats>>
           ELSE jobs' = r.jobs /\ stats' = r.stats
        /\ ghost' = [ghost EXCEPT !.handlers = @ \ {f}, !.finished = @ + 1]
        /\ last' = [Done("edit_field", f.user, f.field, f.old_times, f.tz, 0, 0,
                         f.pc # "error" /\ r.ret, NoJobId, {})
                    EXCEPT !.out = f.value]
        /\ UNCHANGED <<running, now, profiles, entries, dialogue>>

\* the texts sent for a field: one accepted as it is, one normalised, one
\* refused
FieldTexts(field) ==
    IF field = "timezone" THEN { <<" ", "U", "T", "C", " ">>, <<"M", "a", "r", "s">> }
    ELSE IF field = "bedtime_usual" THEN {T2200, T0600, T2500}
    ELSE {T0700}

(***************************************************************************)
(* SpecEditRace: two edits of the schedule fields of user 1 are handled at *)
(* once.                                                                   *)
(***************************************************************************)
NextEditRace ==
    \/ StartScheduler
    \/ \E row \in {DefaultRow("Europe/Kyiv"), CustomRow("Europe/Kyiv")} : SaveProfile(1, row)
    \/ \E field \in ScheduleFields, db_ok \in BOOLEAN :
           \E text \in FieldTexts(field) : EditFieldBegin(1, field, text, db_ok)
    \/ \E f \in ghost.handlers : EditFieldRead(f)
    \/ \E f \in ghost.handlers : EditFieldWriteTimes(f)
    \/ \E f \in ghost.handlers : EditFieldReschedule(f)

SpecEditRace == Init /\ [][NextEditRace]_vars

\* user u's three recurring jobs have the stored times and the stored zone
JobsMatchProfile(u) ==
    /\ Len(profiles[u].notification_times) = Len(PERIODS)
    /\ \A i \in 1..Len(PERIODS) :
           HasRecurringJob(u, i, profiles[u].notification_times[i], profiles[u].timezone)

\* C33: when edits of the schedule fields of one user were handled at the
\* same time and all of them have completed with a reschedule, the user's
\* three recurring jobs have the times and the zone of the stored profile
C33_JobsMatchAfterEdits ==
    \A u \in Users :
        (/\ last.op = "edit_field" /\ last.user = u /\ last.ok
         /\ ghost.handlers = {}
         /\ profiles[u].present)
        => JobsMatchProfile(u)


(***************************************************************************)
(* SpecProfileEdit: the edits of the schedule fields of user 1, one        *)
(* handler at a time.                                                      *)
(***************************************************************************)
NextProfileEdit ==
    \/ StartScheduler
    \/ \E row \in {DefaultRow("Europe/Kyiv"), CustomRow("Europe/Kyiv")} : SaveProfile(1, row)
    \/ \E field \in ScheduleFields, db_ok \in BOOLEAN :
           \E text \in FieldTexts(field) :
               ghost.handlers = {} /\ EditFieldBegin(1, field, text, db_ok)
    \/ \E f \in ghost.handlers : EditFieldRead(f)
    \/ \E f \in ghost.handlers : EditFieldWriteTimes(f)
    \/ \E f \in ghost.handlers : EditFieldReschedule(f)

SpecProfileEdit == Init /\ [][NextProfileEdit]_vars

RECURSIVE str(_)
str(n) == IF n < 10 THEN <<DigitChars[n + 1]>>
          ELSE str(n \div 10) \o <<DigitChars[(n % 10) + 1]>>

\* a word of a job id, as characters
Chars(w) ==
    CASE w = "notif" -> <<"n", "o", "t", "i", "f">>
      [] w = "onetime" -> <<"o", "n", "e", "t", "i", "m", "e">>
      [] w = "morning" -> <<"m", "o", "r", "n", "i", "n", "g">>
      [] w = "day" -> <<"d", "a", "y">>
      [] w = "evening" -> <<"e", "v", "e", "n", "i", "n", "g">>
      [] w = "cleanup_old_jobs" ->
             <<"c", "l", "e", "a", "n", "u", "p", "_", "o", "l", "d", "_",
               "j", "o", "b", "s">>

\* the text of a job id: f"notif_{user_id}_{period}",
\* f"onetime_{user_id}_{period}_{timestamp}", 'cleanup_old_jobs'
JobIdText(id) ==
    IF Len(id) = 1 THEN Chars(id[1])
    ELSE IF Len(id) = 3 THEN Chars(id[1]) \o <<"_">> \o str(id[2]) \o <<"_">> \o Chars(id[3])
    ELSE Chars(id[1]) \o <<"_">> \o str(id[2]) \o <<"_">> \o Chars(id[3])
             \o <<"_">> \o str(id[4])

\* sub in s, for strings
Contains(s, sub) ==
    \E k \in 0..(Len(s) - Len(sub)) : SubSeq(s, k + 1, k + Len(sub)) = sub

\* [job for job in scheduler.get_jobs() if str(user_id) in job.id]
user_jobs(J, user_id) == {j \in J : Contains(JobIdText(j.id), str(user_id))}

\* cmd_jobs of user u; last.pre: the jobs listed, last.ok: a list was sent
CmdJobs(u) ==
    /\ last' = IF profiles[u].present /\ user_jobs(jobs, u) # {}
               THEN Done("jobs", u, "", <<>>, "", 0, Cardinality(user_jobs(jobs, u)),
                         TRUE, NoJobId, user_jobs(jobs, u))
               ELSE Done("jobs", u, "", <<>>, "", 0, 0, FALSE, NoJobId, {})
    /\ UNCHANGED <<running, jobs, stats, now>>
    /\ DbUnchanged

(***************************************************************************)
(* SpecListing: the /jobs listing of two users with recurring and one-shot *)
(* jobs.                                                                   *)
(***************************************************************************)
NextListing ==
    \/ StartScheduler
    \/ \E u \in Users : SaveProfile(u, DefaultRow("UTC"))
    \/ \E u \in Users, p \in {"morning", "evening"} : Snooze(u, p, 1)
    \/ \E t \in Instants : Tick(t)
    \/ \E u \in Users : CmdJobs(u)

SpecListing == Init /\ [][NextListing]_vars

\* C35: the list /jobs sends to user u holds exactly the recurring and the
\* one-shot jobs created for u, and no job created for another user
C35_ListingIsolated ==
    (last.op = "jobs" /\ last.ok)
    => last.pre = {j \in jobs : j.user = last.user}


\* C36: every remind-later request changes the persisted remind_later_count
\* of its entry and the number of one-shot jobs created for it by the same
\* amount: both by one when it is accepted, neither when the request is
\* refused, when the increment fails or when the job is not registered; so
\* the count equals the number of one-shot jobs created for the entry
C36_CountMatchesJobs ==
    [][\A u \in Users, p \in PeriodSet, db_ok \in BOOLEAN :
           RemindLater(u, p, db_ok)
           => LET k == <<u, today(now), p>>
              IN  PersistedCount(entries', k) - PersistedCount(entries, k)
                      = ghost'.accepted[k] - ghost.accepted[k]]_vars


(***************************************************************************)
(* SpecChain: one fire of the morning job of user 1 and the reminders that *)
(* follow from it, over two calendar days; the database does not fail and  *)
(* no entry is deleted.                                                    *)
(***************************************************************************)
NextChain ==
    \/ StartScheduler
    \/ SaveProfile(1, DefaultRow("UTC"))
    \/ \E j \in jobs : /\ j.period = "morning"
                       /\ ghost.offered = {}
                       /\ FireRecurring(j, TRUE)
    \/ /\ now \in Instants \/ last.op = "send"
       /\ RemindLater(1, "morning", TRUE)
    \/ \E j \in jobs : FireOnetime(j, TRUE)
    \/ \E t \in Instants \cup {j.next_run_time : j \in jobs} : Tick(t)

SpecChain == Init /\ [][NextChain]_vars

\* the accepted remind-later requests of user u for period p over the days D
RECURSIVE ChainAccepted(_, _, _)
ChainAccepted(u, p, D) ==
    IF D = {} THEN 0
    ELSE LET d == CHOOSE x \in D : TRUE
         IN  ghost.accepted[<<u, d, p>>] + ChainAccepted(u, p, D \ {d})

\* C37: a recurring job dispatches with the count 0, and the reminders that
\* follow one recurring fire hold at most REMIND_LATER_MAX_COUNT snoozed
\* reminders, with the counts 1 and 2, also when a request of the chain is
\* handled on the day after the recurring fire
C37_ChainBounded ==
    /\ (last.op = "send" /\ ~IsOnetimeId(last.id)) => last.count = 0
    /\ \A u \in Users, p \in PeriodSet :
           /\ ChainAccepted(u, p, Days) <= REMIND_LATER_MAX_COUNT
           /\ \A j, k \in OnetimeJobsOf(jobs, u) :
                  (j.period = p /\ k.period = p /\ j # k)
                  => j.remind_count # k.remind_count


\* C38: the stored bedtime and wakeup of every profile pass
\* validate_sleep_schedule, a sleep duration of MIN_SLEEP_HOURS to
\* MAX_SLEEP_HOURS, after every registration and every edit of the two fields
C38_StoredSleepValid ==
    \A u \in Users :
        profiles[u].present
        => validate_sleep_schedule(profiles[u].bedtime_usual,
                                   profiles[u].wakeuptime_usual)[1]


(***************************************************************************)
(* utils/error_recovery.py: retry_async. The state of one call is held in  *)
(* last.out; the delays are whole seconds. An outcome of func is "ok" (it  *)
(* returns), "fatal" (it raises FatalError) or "error" (it raises another  *)
(* Exception).                                                             *)
(***************************************************************************)
MaxAttempts == 3

Outcomes == {"ok", "fatal", "error"}

\* the state of retry_async(func, max_attempts, delay, backoff) on entry
RetryFrame(max_attempts, delay, backoff) ==
    [pc |-> "call", max_attempts |-> max_attempts, delay |-> delay,
     backoff |-> backoff, attempt |-> 1, current_delay |-> delay,
     outcomes |-> <<>>, sleeps |-> <<>>, result |-> "pending"]

\* a faulty variant of retry_attempt: FatalError is retried like any error
retry_attempt_retryfatal(fr, outcome) ==
    IF fr.attempt > fr.max_attempts
    THEN [fr EXCEPT !.pc = "done", !.result = "None"]
    ELSE LET called == [fr EXCEPT !.outcomes = Append(@, outcome)]
         IN  IF outcome = "ok"
             THEN [called EXCEPT !.pc = "done", !.result = "value"]
             ELSE IF fr.attempt = fr.max_attempts
             THEN [called EXCEPT !.pc = "done", !.result = "None"]
             ELSE [called EXCEPT !.pc = "sleep"]

\* one pass of the loop of retry_async up to its return or its sleep: the
\* range is exhausted (the function ends, None), or func is awaited
retry_attempt(fr, outcome) ==
    IF fr.attempt > fr.max_attempts
    THEN [fr EXCEPT !.pc = "done", !.result = "None"]
    ELSE LET called == [fr EXCEPT !.outcomes = Append(@, outcome)]
         IN  IF outcome = "ok"
             THEN [called EXCEPT !.pc = "done", !.result = "value"]
             ELSE IF outcome = "fatal"
             THEN [called EXCEPT !.pc = "done", !.result = "None"]
             ELSE IF fr.attempt = fr.max_attempts
             THEN [called EXCEPT !.pc = "done", !.result = "None"]
             ELSE [called EXCEPT !.pc = "sleep"]

\* await asyncio.sleep(current_delay); current_delay *= backoff; the next
\* attempt of the range
retry_sleep(fr) ==
    [fr EXCEPT !.pc = "call", !.sleeps = Append(@, fr.current_delay),
               !.current_delay = @ * fr.backoff, !.attempt = @ + 1]

InitRetry ==
    /\ running = FALSE
    /\ jobs = {}
    /\ stats = InitStats
    /\ now = 0
    /\ profiles = [u \in Users |-> NoProfile]
    /\ entries = [k \in EntryKeys |-> NoEntry]
    /\ \E max_attempts \in 0..MaxAttempts, delay \in 1..2, backoff \in 1..3 :
           last = [NoLast EXCEPT !.op = "retry",
                                 !.out = RetryFrame(max_attempts, delay, backoff)]
    /\ ghost = [offered |-> {}, accepted |-> [k \in EntryKeys |-> 0], fired |-> {},
                inflight |-> {}, started |-> 0, finished |-> 0,
                handlers |-> {}, increments |-> [k \in EntryKeys |-> 0]]
    /\ dialogue = [u \in Users |-> NoDialogue]

\* retry_async awaits func, which ends with the outcome
RetryAttempt(outcome) ==
    /\ last.op = "retry" /\ last.out.pc = "call"
    /\ last' = [last EXCEPT !.out = retry_attempt(last.out, outcome)]
    /\ UNCHANGED <<running, jobs, stats, now>>
    /\ DbUnchanged

\* the sleep of retry_async ends
RetrySleep ==
    /\ last.op = "retry" /\ last.out.pc = "sleep"
    /\ last' = [last EXCEPT !.out = retry_sleep(last.out)]
    /\ UNCHANGED <<running, jobs, stats, now>>
    /\ DbUnchanged

NextRetry ==
    \/ \E outcome \in Outcomes : RetryAttempt(outcome)
    \/ RetrySleep

\* the event loop resumes a coroutine whose await has ended
SpecRetry == InitRetry /\ [][NextRetry]_vars /\ WF_vars(NextRetry)

RECURSIVE Pow(_, _)
Pow(b, n) == IF n = 0 THEN 1 ELSE b * Pow(b, n - 1)

\* what the claim says of a call in the state fr
RetryBounded(fr) ==
    LET n == Len(fr.outcomes)
    IN  /\ n <= fr.max_attempts
        /\ \A i \in 1..(n - 1) : fr.outcomes[i] = "error"
        /\ (n > 0 /\ fr.outcomes[n] \in {"ok", "fatal"}) => fr.pc = "done"
        /\ fr.result \in {"pending", "value", "None"}
        /\ fr.pc = "done"
           => /\ fr.result = "value" <=> (n > 0 /\ fr.outcomes[n] = "ok")
              /\ fr.result = "None"
                 <=> \/ n > 0 /\ fr.outcomes[n] = "fatal"
                     \/ n = fr.max_attempts /\ \A i \in 1..n : fr.outcomes[i] = "error"
        /\ fr.pc # "done" => fr.result = "pending"
        /\ fr.pc = "done" => Len(fr.sleeps) = IF n = 0 THEN 0 ELSE n - 1
        /\ fr.pc = "sleep" => Len(fr.sleeps) = n - 1
        /\ fr.pc = "call" => Len(fr.sleeps) = n
        /\ \A i \in 1..Len(fr.sleeps) : fr.sleeps[i] = fr.delay * Pow(fr.backoff, i - 1)

\* C39: retry_async ends; it calls func at most max_attempts times, returns
\* the first result without a further call, returns None right after a
\* FatalError and after max_attempts failures, raises nothing, and sleeps
\* delay * backoff^(i-1) before the attempt i + 1
C39_RetryTerminates ==
    /\ [](last.op = "retry" => RetryBounded(last.out))
    /\ <>(last.op = "retry" /\ last.out.pc = "done")

\* a call with max_attempts = 3 ended with a result on the third attempt,
\* after sleeps of delay and delay * backoff
C39_Witness ==
    /\ last.op = "retry" /\ last.out.pc = "done"
    /\ last.out.outcomes = <<"error", "error", "ok">>
    /\ last.out.backoff = 2 /\ last.out.delay = 2
    /\ last.out.sleeps = <<2, 4>>
    /\ last.out.result = "value"


(***************************************************************************)
(* utils/cache.py: cache_async for one cache key. The state is held in     *)
(* last.out: the entry of _cache and of _cache_timestamps under the key,   *)
(* the callers suspended inside func, and the invocations of func so far.  *)
(***************************************************************************)
MaxCalls == 3

\* ttl: int = 600 of cache_async and get_cached, in seconds
CacheTtl == 600

NoValue == "None"

CacheState ==
    [cached |-> FALSE, value |-> NoValue, stamp |-> 0, callers |-> {},
     invocations |-> {}, calls |-> 0, returned |-> NoValue, hit |-> FALSE]

\* _is_expired(key, ttl) at the instant t
_is_expired(c, ttl, t) == ~c.cached \/ t - c.stamp > ttl

\* get_cached(key, ttl) at the instant t: [cache, ret]; an expired entry is
\* removed
get_cached(c, ttl, t) ==
    IF ~c.cached THEN [cache |-> c, ret |-> NoValue]
    ELSE IF _is_expired(c, ttl, t)
    THEN [cache |-> [c EXCEPT !.cached = FALSE, !.value = NoValue], ret |-> NoValue]
    ELSE [cache |-> c, ret |-> c.value]

\* set_cached(key, value) at the instant t
set_cached(c, value, t) == [c EXCEPT !.cached = TRUE, !.value = value, !.stamp = t]

InitCache ==
    /\ running = FALSE
    /\ jobs = {}
    /\ stats = InitStats
    /\ now = 0
    /\ profiles = [u \in Users |-> NoProfile]
    /\ entries = [k \in EntryKeys |-> NoEntry]
    /\ last = [NoLast EXCEPT !.op = "cache", !.out = CacheState]
    /\ ghost = [offered |-> {}, accepted |-> [k \in EntryKeys |-> 0], fired |-> {},
                inflight |-> {}, started |-> 0, finished |-> 0,
                handlers |-> {}, increments |-> [k \in EntryKeys |-> 0]]
    /\ dialogue = [u \in Users |-> NoDialogue]

\* the wrapper of cache_async up to its return of the cached value or to its
\* await of func
CacheCall ==
    LET c == last.out
        g == get_cached(c, CacheTtl, now)
        n == c.calls + 1
    IN  /\ last.op = "cache"
        /\ c.calls < MaxCalls
        /\ last' = [last EXCEPT !.out =
                        IF g.ret # NoValue
                        THEN [g.cache EXCEPT !.calls = n, !.returned = g.ret, !.hit = TRUE]
                        ELSE [g.cache EXCEPT !.calls = n, !.returned = NoValue,
                                             !.hit = FALSE,
                                             !.callers = @ \cup {n},
                                             !.invocations = @ \cup
                                                 {[n |-> n, start |-> now,
                                                   result |-> "pending"]}]]
        /\ UNCHANGED <<running, jobs, stats, now>>
        /\ DbUnchanged

\* func returns result to the caller n: the wrapper stores a result that is
\* not None and returns it
CacheReturn(n, result) ==
    LET c == last.out
        inv == CHOOSE x \in c.invocations : x.n = n
        c1 == [c EXCEPT !.callers = @ \ {n},
                        !.invocations = (@ \ {inv}) \cup {[inv EXCEPT !.result = result]},
                        !.returned = result, !.hit = FALSE]
    IN  /\ last.op = "cache"
        /\ n \in c.callers
        /\ last' = [last EXCEPT !.out = IF result # NoValue
                                        THEN set_cached(c1, result, now) ELSE c1]
        /\ UNCHANGED <<running, jobs, stats, now>>
        /\ DbUnchanged

NextCache ==
    \/ CacheCall
    \/ \E n \in 1..MaxCalls, result \in {NoValue, "value"} : CacheReturn(n, result)
    \/ \E t \in Instants \cup {CacheTtl, CacheTtl + 1} : Tick(t)

SpecCache == InitCache /\ [][NextCache]_vars

\* C40: a call that finds an entry not older than the ttl returns the cached
\* value and does not invoke func; a None result is not stored; and two
\* invocations of func that returned a value lie more than a ttl apart, also
\* when callers are suspended inside func at the same time
C40_ComputedOnce ==
    last.op = "cache"
    => LET c == last.out
       IN  /\ c.hit => c.returned # NoValue /\ c.returned = c.value
           /\ c.cached => c.value # NoValue
           /\ \A x, y \in c.invocations :
                  (x.n < y.n /\ x.result \notin {"pending", NoValue}
                   /\ y.result \notin {"pending", NoValue})
                  => y.start - x.start > CacheTtl

====
